---- MODULE Spec2Model ----
(***************************************************************************)
(* Model of the SWIG post-processing tools of the Firebase Unity SDK:      *)
(*   swig_post_process.py  - the rewrite rules, apply_post_process (the    *)
(*                           convergence driver) and post_process (the     *)
(*                           in-place batch runner);                       *)
(*   swig_nested_fix.py    - reparent_files and main (container            *)
(*                           regrouping).                                  *)
(*                                                                         *)
(* Representation of text.  A text is the sequence of its lines as         *)
(* str.split('\n') gives them, so it is never empty and a text that ends   *)
(* with a line terminator has an empty last line.  A line is its leading   *)
(* indentation (a number of spaces) and its tokens, the maximal runs of    *)
(* non-space characters, separated by single spaces.  A token is a         *)
(* sequence of parts: the pieces of the token the regular expressions of   *)
(* the rules can tell apart (<<"k","Foo","Bar">> is kFooBar, <<"f","(",")",*)
(* ";">> is f();).  A lower-case k that starts an identifier is always a   *)
(* part of its own, and braces, parentheses and semicolons are parts of    *)
(* their own.                                                              *)
(***************************************************************************)
EXTENDS Integers, Sequences, FiniteSets, TLC

\* ------------------------------------------------------------------------
\* Bounds of the model
\* ------------------------------------------------------------------------
MaxRules == 2        \* longest rule list handed to post_process
MaxPasses == 4       \* passes of one apply_post_process call the model follows
MaxRuns == 2         \* times post_process is run over the directory
MaxRuleLines == 3    \* lines of the text handed to a single rule call
MaxScanLines == 7    \* lines fed to the line-by-line scan of FixSealedClasses
MaxDepth == 3        \* deepest brace nesting fed to that scan
MaxSiblings == 2     \* sibling files in the directory of swig_nested_fix
MaxInputLines == 4   \* lines swig_commenter reads from its input files
MaxInputFiles == 2   \* input files of swig_commenter
MaxArgLines == 5     \* lines RenameArgsFromSnakeToCamelCase reads

\* ------------------------------------------------------------------------
\* Text, lines and tokens
\* ------------------------------------------------------------------------
T(s) == <<s>>
Ln(ind, toks) == [ind |-> ind, toks |-> toks]
EmptyLine == Ln(0, <<>>)

\* str.splitlines(): the lines of the text; a final line terminator does not
\* open a further line, and the empty text has no line at all.
splitlines(text) ==
  IF text[Len(text)] = EmptyLine THEN SubSeq(text, 1, Len(text) - 1) ELSE text

\* '\n'.join(lines), in the split representation.
join(lines) == IF lines = <<>> THEN <<EmptyLine>> ELSE lines

\* The value a rule call has when the rule raises instead of returning.
Raised == <<>>

RECURSIVE SumSeq(_)
SumSeq(s) == IF s = <<>> THEN 0 ELSE s[1] + SumSeq(Tail(s))

RECURSIVE Concat(_)
Concat(ss) == IF ss = <<>> THEN <<>> ELSE ss[1] \o Concat(Tail(ss))

CountPart(tok, p) == Cardinality({i \in 1..Len(tok) : tok[i] = p})

\* line.count(ch)
count(line, ch) == SumSeq([i \in 1..Len(line.toks) |-> CountPart(line.toks[i], ch)])

Least(S) == CHOOSE x \in S : \A y \in S : x <= y
Greatest(S) == CHOOSE x \in S : \A y \in S : y <= x

IsPrefix(p, s) == Len(p) <= Len(s) /\ SubSeq(s, 1, Len(p)) = p
IsSuffix(p, s) == Len(p) <= Len(s) /\ SubSeq(s, Len(s) - Len(p) + 1, Len(s)) = p

\* Some token of the line at or after position i contains the part p.
HasPartFrom(line, i, p) ==
  \E j \in i..Len(line.toks) : CountPart(line.toks[j], p) > 0

\* ------------------------------------------------------------------------
\* AddPInvokeAttribute
\* ------------------------------------------------------------------------
\* 'static void SetPendingArgument.*string paramName\)' and the three other
\* search strings: a match starts with consecutive tokens and, for the three
\* SetPending patterns, needs the tail tokens further right on the line.
MatchesAt(line, i, third, tail1, tail2) ==
  /\ i + 2 <= Len(line.toks)
  /\ IsSuffix(<<"static">>, line.toks[i])
  /\ line.toks[i + 1] = T(IF third = <<"CreateString">> THEN "string" ELSE "void")
  /\ IsPrefix(third, line.toks[i + 2])
  /\ tail1 # <<>> =>
       \E j \in (i + 2)..(Len(line.toks) - 1) :
          /\ IsSuffix(tail1, line.toks[j])
          /\ IsPrefix(tail2, line.toks[j + 1])
          /\ j = i + 2 => Len(line.toks[j]) > Len(third)

Matches(line, third, tail1, tail2) ==
  \E i \in 1..Len(line.toks) : MatchesAt(line, i, third, tail1, tail2)

NoDelegate == "None"

get_line_delegate(line) ==
  IF Matches(line, <<"SetPending", "Argument">>, <<"string">>, <<"paramName", ")">>)
    THEN "ExceptionArgumentDelegate"
  ELSE IF Matches(line, <<"SetPending", "FirestoreException">>, <<"string">>, <<"message">>)
    THEN "FirestoreExceptionDelegate"
  ELSE IF Matches(line, <<"SetPending">>, <<"string">>, <<"message">>)
    THEN "ExceptionDelegate"
  ELSE IF Matches(line, <<"CreateString">>, <<>>, <<>>)
    THEN "SWIGStringDelegate"
  ELSE NoDelegate

AttributeLine(ind, delegate) ==
  Ln(ind, << <<"[MonoPInvokeCallback(typeof(", delegate, "))]">> >>)

\* re.search(r'^(\s+)', line) is None for a line that starts in column 0, and
\* .group(0) then raises AttributeError.
PInvokeRaises(file_str) ==
  \E i \in 1..Len(splitlines(file_str)) :
     /\ get_line_delegate(splitlines(file_str)[i]) # NoDelegate
     /\ splitlines(file_str)[i].ind = 0

AddAttributes(file_str) ==
  IF PInvokeRaises(file_str) THEN Raised
  ELSE LET lines == splitlines(file_str)
           out(i) == IF get_line_delegate(lines[i]) # NoDelegate
                       THEN << AttributeLine(lines[i].ind, get_line_delegate(lines[i])),
                               lines[i] >>
                       ELSE << lines[i] >>
       IN join(Concat([i \in 1..Len(lines) |-> out(i)]))

\* A rule that adds the attribute lines on every pass.
AddPInvokeAttribute_everyPass(file_str, iteration) == AddAttributes(file_str)

\* AddPInvokeAttribute.__call__
AddPInvokeAttribute(file_str, iteration) ==
  IF iteration # 0 THEN file_str
  ELSE AddAttributes(file_str)

\* ------------------------------------------------------------------------
\* FixSealedClasses
\* ------------------------------------------------------------------------
\* virtual_regexp = '( +)virtual +', replaced by group 1: a token "virtual"
\* with a space before it and a space after it is removed.  The match takes
\* the spaces after it, so a "virtual" that directly follows a removed one
\* has no space left in front of it and stays.
RECURSIVE virtual_sub_from(_, _, _)
virtual_sub_from(line, i, spaceBefore) ==
  IF i > Len(line.toks) THEN <<>>
  ELSE IF line.toks[i] = T("virtual") /\ spaceBefore /\ i < Len(line.toks)
         THEN virtual_sub_from(line, i + 1, FALSE)
         ELSE <<line.toks[i]>> \o virtual_sub_from(line, i + 1, TRUE)

virtual_sub(line) == Ln(line.ind, virtual_sub_from(line, 1, line.ind > 0))

\* protected_regexp = 'protected ([^ ]+ [^ ]+ *;)', replaced by
\* 'private \1'.  Width of the match that starts in token i, 0 for none.
ProtectedWidth(line, i) ==
  IF /\ i + 2 <= Len(line.toks)
     /\ IsSuffix(<<"protected">>, line.toks[i])
  THEN IF \E p \in 2..Len(line.toks[i + 2]) : line.toks[i + 2][p] = ";"
         THEN 3
       ELSE IF i + 3 <= Len(line.toks) /\ IsPrefix(<<";">>, line.toks[i + 3])
         THEN 4
       ELSE 0
  ELSE 0

RECURSIVE protected_sub_from(_, _)
protected_sub_from(line, i) ==
  IF i > Len(line.toks) THEN <<>>
  ELSE IF ProtectedWidth(line, i) > 0
         THEN LET tok == line.toks[i]
                  w == ProtectedWidth(line, i)
              IN << SubSeq(tok, 1, Len(tok) - 1) \o <<"private">> >>
                 \o SubSeq(line.toks, i + 1, i + w - 1)
                 \o protected_sub_from(line, i + w)
         ELSE <<line.toks[i]>> \o protected_sub_from(line, i + 1)

protected_sub(line) == Ln(line.ind, protected_sub_from(line, 1))

\* sealed_class_regexp = 'sealed .*class ([^ ]+).*{' ; the positions j of a
\* token "class" that the expression can use.
SealedClassAt(line) ==
  {j \in 2..(Len(line.toks) - 1) :
     /\ IsSuffix(<<"class">>, line.toks[j])
     /\ \E i \in 1..(j - 1) : IsSuffix(<<"sealed">>, line.toks[i])
     /\ \/ \E p \in 2..Len(line.toks[j + 1]) : line.toks[j + 1][p] = "{"
        \/ HasPartFrom(line, j + 2, "{")}

sealed_class_regexp(line) == SealedClassAt(line) # {}

\* class_match.groups()[0]: '.*' is greedy, so the last usable "class".
SealedClassName(line) ==
  LET j == CHOOSE k \in SealedClassAt(line) : \A m \in SealedClassAt(line) : m <= k
  IN line.toks[j + 1]

\* The class_stack[0] the loop body looks at: the first frame pushed.
ScopeFrame(class_stack) == class_stack[1]

\* One iteration of the loop over file_str.splitlines(): st is the state
\* before the line (class_stack, scope_count); the result is the state after
\* it and the line appended to output.
FixSealedStep(st, line_in) ==
  LET inMember == /\ st.class_stack # <<>>
                  /\ ScopeFrame(st.class_stack).depth = st.scope_count
      ended == /\ st.class_stack # <<>>
               /\ ~inMember
               /\ st.scope_count < ScopeFrame(st.class_stack).depth
      line == IF inMember THEN protected_sub(virtual_sub(line_in)) ELSE line_in
      popped == IF ended
                  THEN SubSeq(st.class_stack, 1, Len(st.class_stack) - 1)
                  ELSE st.class_stack
      scope == st.scope_count + count(line, "{") - count(line, "}")
  IN [class_stack |-> IF sealed_class_regexp(line)
                        THEN Append(popped, [depth |-> scope,
                                             name |-> SealedClassName(line)])
                        ELSE popped,
      scope_count |-> scope,
      line |-> line]

FixSealedInit == [class_stack |-> <<>>, scope_count |-> 0, line |-> EmptyLine]

RECURSIVE FixSealedLines(_, _)
FixSealedLines(st, lines) ==
  IF lines = <<>> THEN <<>>
  ELSE LET nxt == FixSealedStep(st, lines[1])
       IN <<nxt.line>> \o FixSealedLines(nxt, Tail(lines))

FixSealedClasses(file_str, iteration) ==
  join(FixSealedLines(FixSealedInit, splitlines(file_str)))

\* ------------------------------------------------------------------------
\* SWIGEnumPostProcessing
\* ------------------------------------------------------------------------
\* The parts that are not of the class [a-zA-Z_0-9].
NonIdentParts == {" ", ".", "{", "}", "(", ")", ";", ",", "=", "<", ">", "+", "\"",
                  "*", ":", "//", "///",
                  "[MonoPInvokeCallback(typeof(", "))]"}

IsIdent(tok) == tok # <<>> /\ \A i \in 1..Len(tok) : tok[i] \notin NonIdentParts

\* The longest prefix of the token made of identifier characters.
RECURSIVE IdentLen(_)
IdentLen(tok) ==
  IF tok = <<>> \/ tok[1] \in NonIdentParts THEN 0 ELSE 1 + IdentLen(Tail(tok))

\* The tokens of the whole text in reading order, each as <<line, index>>.
RECURSIVE TokensFrom(_, _)
TokensFrom(text, l) ==
  IF l > Len(text) THEN <<>>
  ELSE [t \in 1..Len(text[l].toks) |-> <<l, t>>] \o TokensFrom(text, l + 1)

TokenAt(text, p) == text[p[1]].toks[p[2]]

SetToken(text, p, tok) ==
  [text EXCEPT ![p[1]] = Ln(text[p[1]].ind, [text[p[1]].toks EXCEPT ![p[2]] = tok])]

EmptyMapping == [x \in {} |-> <<>>]

\* self.enum_mapping[old] = new
MappingPut(mapping, old, new) ==
  [x \in (DOMAIN mapping) \cup {old} |-> IF x = old THEN new ELSE mapping[x]]

\* The 'old' and 'new' groups of the member expression
\* '^(\s*)(k(?:<enum_name>)?([a-zA-Z_0-9]*))(.*)' on a token that is the
\* first text of its line.
OldName(tok) == SubSeq(tok, 1, IdentLen(tok))

NewName(tok, enum_name) ==
  LET old == OldName(tok)
  IN IF IsPrefix(enum_name, Tail(old))
       THEN SubSeq(old, 2 + Len(enum_name), Len(old))
       ELSE Tail(old)

IsEnumMember(tok) == tok # <<>> /\ tok[1] = "k"

\* _cache_replace on one member line: the renamed token and the mapping.
\* st is [text, mapping].
ReplaceMember(st, p, enum_name) ==
  LET tok == TokenAt(st.text, p)
  IN IF IsEnumMember(tok)
       THEN [text |-> SetToken(st.text, p,
                        NewName(tok, enum_name)
                          \o SubSeq(tok, IdentLen(tok) + 1, Len(tok))),
             mapping |-> MappingPut(st.mapping, OldName(tok), NewName(tok, enum_name))]
       ELSE st

\* _replace_enum_lines: the tokens at flat positions from..to of the enum
\* body; only the first text of a line (or of the body) can be a member.
RECURSIVE ReplaceEnumLines(_, _, _, _, _, _)
ReplaceEnumLines(st, pos, from, to, first, enum_name) ==
  IF from > to THEN st
  ELSE ReplaceEnumLines(
         IF from = first \/ pos[from][2] = 1
           THEN ReplaceMember(st, pos[from], enum_name)
           ELSE st,
         pos, from + 1, to, first, enum_name)

\* '(\s+enum\s+)(name)(\s*{\s*)(.*?)(\s*})' matches with "enum" at flat
\* position k: white space before "enum", an identifier, an opening brace
\* and, somewhere after it, a closing brace.
EnumCloses(text, pos, k) ==
  {c \in (k + 3)..Len(pos) : CountPart(TokenAt(text, pos[c]), "}") > 0}

EnumMatchesAt(text, pos, k) ==
  /\ k + 3 <= Len(pos)
  /\ TokenAt(text, pos[k]) = T("enum")
  /\ ~(pos[k] = <<1, 1>> /\ text[1].ind = 0)
  /\ IsIdent(TokenAt(text, pos[k + 1]))
  /\ TokenAt(text, pos[k + 2]) = T("{")
  /\ EnumCloses(text, pos, k) # {}

RECURSIVE EnumScan(_, _, _)
EnumScan(st, pos, k) ==
  IF k > Len(pos) THEN st
  ELSE IF EnumMatchesAt(st.text, pos, k)
    THEN LET c == CHOOSE x \in EnumCloses(st.text, pos, k) :
                     \A y \in EnumCloses(st.text, pos, k) : x <= y
         IN EnumScan(ReplaceEnumLines(st, pos, k + 3, c, k + 3,
                                      TokenAt(st.text, pos[k + 1])),
                     pos, c + 1)
    ELSE EnumScan(st, pos, k + 1)

\* __call__: the rewritten text and the rule's enum_mapping after the call.
SWIGEnumPostProcessing(file_str, mapping) ==
  EnumScan([text |-> file_str, mapping |-> mapping], TokensFrom(file_str, 1), 1)

\* ------------------------------------------------------------------------
\* RenameAsyncMethods
\* ------------------------------------------------------------------------
\* The characters of the tokens, as parts with " " between the tokens.
RECURSIVE FlatParts(_)
FlatParts(toks) ==
  IF toks = <<>> THEN <<>>
  ELSE toks[1] \o (IF Len(toks) > 1 THEN <<" ">> ELSE <<>>) \o FlatParts(Tail(toks))

\* The tokens of a sequence of parts with " " between the tokens.
RECURSIVE Unflat(_, _)
Unflat(parts, cur) ==
  IF parts = <<>> THEN <<cur>>
  ELSE IF parts[1] = " " THEN <<cur>> \o Unflat(Tail(parts), <<>>)
  ELSE Unflat(Tail(parts), Append(cur, parts[1]))

TaskType == "System.Threading.Tasks.Task"

\* ' +System\.Threading\.Tasks\.Task<[^>]+> +' (generic) and
\* ' +System\.Threading\.Tasks\.Task +' at token i.
IsTaskToken(line, i, generic) ==
  /\ i < Len(line.toks)
  /\ i > 1 \/ line.ind > 0
  /\ LET tok == line.toks[i]
     IN IF generic
          THEN /\ Len(tok) >= 4
               /\ tok[1] = TaskType /\ tok[2] = "<" /\ tok[Len(tok)] = ">"
               /\ \A m \in 3..(Len(tok) - 1) : tok[m] # ">"
          ELSE tok = T(TaskType)

\* ' *\([^)]*\) *{$' starting at F[q], after any spaces.
SignatureTail(F, q) ==
  /\ q <= Len(F) /\ F[q] = "("
  /\ \E r \in (q + 1)..Len(F) :
       /\ F[r] = ")"
       /\ \A m \in (q + 1)..(r - 1) : F[m] # ")"
       /\ SubSeq(F, r + 1, Len(F)) \in {<<"{">>, <<" ", "{">>}

\* The lengths the name group can have in F, the text after the Task token:
\* '[^ ]+' for the generic expression, '\w+' for the other.
NameLengths(F, generic) ==
  {n \in 1..Len(F) :
     /\ \A m \in 1..n : F[m] # " "
     /\ ~generic => n = IdentLen(F)
     /\ \/ SignatureTail(F, n + 1)
        \/ n + 2 <= Len(F) /\ F[n + 1] = " " /\ SignatureTail(F, n + 2)}

AsyncMatchAt(line, generic) ==
  {i \in 1..Len(line.toks) :
     /\ IsTaskToken(line, i, generic)
     /\ NameLengths(FlatParts(SubSeq(line.toks, i + 1, Len(line.toks))), generic) # {}}

\* line.replace('_DEPRECATEDAsync', 'Async_DEPRECATED')
RECURSIVE SwapDeprecated(_)
SwapDeprecated(F) ==
  IF Len(F) < 2 THEN F
  ELSE IF F[1] = "_DEPRECATED" /\ F[2] = "Async"
         THEN <<"Async", "_DEPRECATED">> \o SwapDeprecated(SubSeq(F, 3, Len(F)))
         ELSE <<F[1]>> \o SwapDeprecated(Tail(F))

\* function_name.endswith('Async') or ...('Async_DEPRECATED') or == 'GetTask'
KeepsName(function_name) ==
  \/ IsSuffix(<<"Async">>, function_name)
  \/ IsSuffix(<<"Async", "_DEPRECATED">>, function_name)
  \/ function_name = <<"GetTask">>

\* The body of the loop over the two expressions, for the one that matched.
RenameAsyncWith(line, generic) ==
  LET i == Least(AsyncMatchAt(line, generic))
      F == FlatParts(SubSeq(line.toks, i + 1, Len(line.toks)))
      n == Greatest(NameLengths(F, generic))
      function_name == SubSeq(F, 1, n)
      renamed == function_name \o <<"Async">> \o SubSeq(F, n + 1, Len(F))
      whole == FlatParts(SubSeq(line.toks, 1, i)) \o <<" ">> \o renamed
  IN IF KeepsName(function_name) THEN line
     ELSE IF IsSuffix(<<"_DEPRECATED">>, function_name)
       THEN Ln(line.ind, Unflat(SwapDeprecated(whole), <<>>))
       ELSE Ln(line.ind, Unflat(whole, <<>>))

RenameAsyncLine(line) ==
  IF AsyncMatchAt(line, TRUE) # {} THEN RenameAsyncWith(line, TRUE)
  ELSE IF AsyncMatchAt(line, FALSE) # {} THEN RenameAsyncWith(line, FALSE)
  ELSE line

RenameAsyncMethods(file_str, iteration) ==
  LET lines == splitlines(file_str)
  IN join([i \in 1..Len(lines) |-> RenameAsyncLine(lines[i])])

\* ------------------------------------------------------------------------
\* InternalMethodsToInternalVisibility
\* ------------------------------------------------------------------------
\* '[^ )]+Internal(Async)?(_DEPRECATED)?($| +|[({])' on a whole token.
InternalNameEnds(tok, m) ==
  {m} \cup {e \in {m + 1} : e <= Len(tok) /\ tok[e] \in {"Async", "_DEPRECATED"}}
      \cup {e \in {m + 2} : /\ e <= Len(tok)
                            /\ tok[m + 1] = "Async" /\ tok[e] = "_DEPRECATED"}

IsInternalName(tok) ==
  \E m \in 2..Len(tok) :
     /\ tok[m] = "Internal"
     /\ \A x \in 1..(m - 1) : tok[x] # ")"
     /\ \E e \in InternalNameEnds(tok, m) :
           e = Len(tok) \/ tok[e + 1] \in {"(", "{"}

\* The token the name group matches: the first one after a "public".
InternalNameAt(line) ==
  {j \in 2..Len(line.toks) :
     /\ IsInternalName(line.toks[j])
     /\ \E i \in 1..(j - 1) : CountPart(line.toks[i], "public") > 0}

\* visibility.replace('public', 'internal') on the tokens of group 1.
PublicToInternal(tok, from) ==
  [m \in 1..Len(tok) |-> IF m >= from /\ tok[m] = "public" THEN "internal" ELSE tok[m]]

InternalLine(line) ==
  IF InternalNameAt(line) = {} THEN line
  ELSE LET first == Least({i \in 1..Len(line.toks) :
                             /\ CountPart(line.toks[i], "public") > 0
                             /\ \E j \in InternalNameAt(line) : i < j})
           j == Least({x \in InternalNameAt(line) : x > first})
       IN Ln(line.ind,
             [t \in 1..Len(line.toks) |->
                IF t >= first /\ t < j
                  THEN PublicToInternal(line.toks[t], 1)
                  ELSE line.toks[t]])

InternalMethodsToInternalVisibility(file_str, iteration) ==
  LET lines == splitlines(file_str)
  IN join([i \in 1..Len(lines) |-> InternalLine(lines[i])])

\* ------------------------------------------------------------------------
\* DynamicToReinterpretCast
\* ------------------------------------------------------------------------
\* re.sub(r'dynamic_cast<', 'reinterpret_cast<', file_str)
CastToken(tok) ==
  [m \in 1..Len(tok) |->
     IF tok[m] = "dynamic_cast" /\ m < Len(tok) /\ tok[m + 1] = "<"
       THEN "reinterpret_cast" ELSE tok[m]]

DynamicToReinterpretCast(file_str, iteration) ==
  IF iteration # 0 THEN file_str
  ELSE [l \in 1..Len(file_str) |->
          Ln(file_str[l].ind,
             [t \in 1..Len(file_str[l].toks) |-> CastToken(file_str[l].toks[t])])]

\* ------------------------------------------------------------------------
\* The rules as objects of a rule list
\* ------------------------------------------------------------------------
\* A rule that breaks the contract of SWIGPostProcessingInterface.__call__:
\* it returns a text different from its input on every call (it adds a final
\* line terminator, or takes it away).
Unstable(file_str, iteration) ==
  IF Len(file_str) > 1 /\ file_str[Len(file_str)] = EmptyLine
    THEN SubSeq(file_str, 1, Len(file_str) - 1)
    ELSE Append(file_str, EmptyLine)

LibraryRules == {"SWIGEnumPostProcessing", "AddPInvokeAttribute", "FixSealedClasses",
                 "RenameAsyncMethods", "InternalMethodsToInternalVisibility",
                 "DynamicToReinterpretCast"}

\* proc(file_buffer, file_name, iteration): the text returned (Raised when the
\* call raises) and the enum_mapping of the SWIGEnumPostProcessing object
\* after the call.
Call(proc, file_str, iteration, mapping) ==
  IF proc = "SWIGEnumPostProcessing" THEN SWIGEnumPostProcessing(file_str, mapping)
  ELSE [mapping |-> mapping,
        text |-> CASE proc = "AddPInvokeAttribute" -> AddPInvokeAttribute(file_str, iteration)
                   [] proc = "FixSealedClasses" -> FixSealedClasses(file_str, iteration)
                   [] proc = "RenameAsyncMethods" -> RenameAsyncMethods(file_str, iteration)
                   [] proc = "InternalMethodsToInternalVisibility" ->
                        InternalMethodsToInternalVisibility(file_str, iteration)
                   [] proc = "DynamicToReinterpretCast" ->
                        DynamicToReinterpretCast(file_str, iteration)
                   [] proc = "Unstable" -> Unstable(file_str, iteration)]

\* ------------------------------------------------------------------------
\* Generated lines and files the model reads
\* ------------------------------------------------------------------------
\* "  int y;"
PlainLine == Ln(1, <<T("int"), <<"y", ";">> >>)
\* "  static string CreateString(global::System.String cString) {"
DelegateLine ==
  Ln(1, <<T("static"), T("string"), <<"CreateString", "(", "string">>,
          <<"cString", ")">>, T("{")>>)
\* the same declaration starting in column 0
DelegateLineCol0 == Ln(0, DelegateLine.toks)
\* "  enum Foo { kFooBar }"
EnumLine == Ln(1, <<T("enum"), T("Foo"), T("{"), <<"k", "Foo", "Bar">>, T("}")>>)
\* "  enum Foo { kkA }"
EnumLineKK == Ln(1, <<T("enum"), T("Foo"), T("{"), <<"k", "k", "A">>, T("}")>>)
\* "  x = kFooBar + OtherBar;"
EnumUseLine ==
  Ln(1, <<T("x"), T("="), <<"k", "Foo", "Bar">>, T("+"), <<"Other", "Bar", ";">> >>)
\* "public sealed class A {"
SealedClassLine == Ln(0, <<T("public"), T("sealed"), T("class"), T("A"), T("{")>>)
\* "public class B {"
PlainClassLine == Ln(0, <<T("public"), T("class"), T("B"), T("{")>>)
\* "  public virtual void f();"
VirtualLine == Ln(1, <<T("public"), T("virtual"), T("void"), <<"f", "(", ")", ";">> >>)
\* "  protected int x;"
ProtectedLine == Ln(1, <<T("protected"), T("int"), <<"x", ";">> >>)
\* "  public void g() {"
MethodLine == Ln(1, <<T("public"), T("void"), <<"g", "(", ")">>, T("{")>>)
\* "}"
CloseLine == Ln(0, <<T("}")>>)
\* "  public System.Threading.Tasks.Task<int> Get() {"
TaskLine == Ln(1, <<T("public"), <<TaskType, "<", "int", ">">>, <<"Get", "(", ")">>, T("{")>>)
\* "  public System.Threading.Tasks.Task Send_DEPRECATED() {"
TaskLineDeprecated ==
  Ln(1, <<T("public"), T(TaskType), <<"Send", "_DEPRECATED", "(", ")">>, T("{")>>)
\* "  public void SetInternal() {"
InternalUseLine == Ln(1, <<T("public"), T("void"), <<"Set", "Internal", "(", ")">>, T("{")>>)
\* "  x = dynamic_cast<Foo *>(y);"
CastLine ==
  Ln(1, <<T("x"), T("="), <<"dynamic_cast", "<", "Foo">>, <<"*", ">", "(", "y", ")", ";">> >>)

\* The generated files of the directory post_process runs over.
FileTexts ==
  { <<EmptyLine>>,
    <<PlainLine>>,
    <<PlainLine, EmptyLine>>,
    <<DelegateLine>>,
    <<DelegateLineCol0>>,
    <<EnumLine, EnumUseLine>>,
    <<EnumLineKK>>,
    <<SealedClassLine, VirtualLine, CloseLine>> }

\* ------------------------------------------------------------------------
\* swig_nested_fix: string operations of reparent_files
\* ------------------------------------------------------------------------
\* A position in a text: <<line, token, part>>.
PartPositions(text, ch) ==
  {p \in UNION {UNION {{<<l, t, q>> : q \in 1..Len(text[l].toks[t])}
                         : t \in 1..Len(text[l].toks)} : l \in 1..Len(text)} :
     text[p[1]].toks[p[2]][p[3]] = ch}

PosBefore(a, b) ==
  \/ a[1] < b[1]
  \/ a[1] = b[1] /\ a[2] < b[2]
  \/ a[1] = b[1] /\ a[2] = b[2] /\ a[3] < b[3]

FirstPos(S) == CHOOSE p \in S : \A o \in S : o = p \/ PosBefore(p, o)
LastPos(S) == CHOOSE p \in S : \A o \in S : o = p \/ PosBefore(o, p)

\* text[:p]
SliceBefore(text, p) ==
  LET line == text[p[1]]
      tok == line.toks[p[2]]
  IN SubSeq(text, 1, p[1] - 1)
     \o << Ln(line.ind, SubSeq(line.toks, 1, p[2] - 1)
                          \o (IF p[3] > 1 THEN <<SubSeq(tok, 1, p[3] - 1)>> ELSE <<>>)) >>

\* text[p:]
SliceFrom(text, p) ==
  LET line == text[p[1]]
      tok == line.toks[p[2]]
  IN << Ln(0, <<SubSeq(tok, p[3], Len(tok))>>
                \o SubSeq(line.toks, p[2] + 1, Len(line.toks))) >>
     \o SubSeq(text, p[1] + 1, Len(text))

\* text[p+1:]
SliceAfter(text, p) ==
  LET line == text[p[1]]
      tok == line.toks[p[2]]
      rest == SubSeq(line.toks, p[2] + 1, Len(line.toks))
  IN << IF p[3] < Len(tok)
          THEN Ln(0, <<SubSeq(tok, p[3] + 1, Len(tok))>> \o rest)
          ELSE Ln(IF rest = <<>> THEN 0 ELSE 1, rest) >>
     \o SubSeq(text, p[1] + 1, Len(text))

\* a + b for two pieces of a line
MergeLine(a, b) ==
  IF a.toks = <<>> THEN Ln(a.ind + b.ind, b.toks)
  ELSE IF b.toks = <<>> THEN a
  ELSE IF b.ind > 0 THEN Ln(a.ind, a.toks \o b.toks)
  ELSE Ln(a.ind, SubSeq(a.toks, 1, Len(a.toks) - 1)
                   \o <<a.toks[Len(a.toks)] \o b.toks[1]>>
                   \o Tail(b.toks))

\* a + b for two strings
StrCat(a, b) ==
  SubSeq(a, 1, Len(a) - 1) \o <<MergeLine(a[Len(a)], b[1])>> \o Tail(b)

\* The value of 'match' when NAMESPACE_RE does not match.
NoMatch == <<>>

\* NAMESPACE_RE.search(text[:text.find("{")+1]): group 1 of
\* '^\s*namespace\s+(.*)\s+{\s*$', the tokens between "namespace" and the
\* first opening brace of the text, or NoMatch.
NAMESPACE_RE(text) ==
  IF PartPositions(text, "{") = {} THEN NoMatch
  ELSE LET p == FirstPos(PartPositions(text, "{"))
           toks == text[p[1]].toks
           above == {l \in 1..(p[1] - 1) : text[l].toks # <<>>}
       IN IF p[3] # 1 THEN NoMatch
          ELSE IF p[2] >= 3 /\ toks[1] = T("namespace")
            THEN SubSeq(toks, 2, p[2] - 1)
          \* the brace opens the next line that is not blank
          ELSE IF /\ p[2] = 1 /\ above # {}
                  /\ Len(text[Greatest(above)].toks) >= 2
                  /\ text[Greatest(above)].toks[1] = T("namespace")
            THEN Tail(text[Greatest(above)].toks)
          ELSE NoMatch

\* 'common_namespace or namespace_name'
PyOr(a, b) == IF a # <<>> THEN a ELSE b

\* A check that lets any namespace pass.
NamespaceClash_never(common_namespace, namespace_name) == FALSE

\* 'if common_namespace != namespace_name:'
NamespaceClash(common_namespace, namespace_name) ==
  common_namespace # namespace_name

\* 'file_buffer[ns_start+1:file_buffer.rfind("}")]'
StripNamespace(file_buffer) ==
  LET open == FirstPos(PartPositions(file_buffer, "{"))
      after == SliceAfter(file_buffer, open)
      \* the same closing brace, as a position in 'after'
      close == LastPos(PartPositions(after, "}"))
  IN SliceBefore(after, close)

\* The lines joined again without the added indentation.
IndentBody_unindented(file_buffer) ==
  join(splitlines(file_buffer)) \o <<EmptyLine>>

\* '"\n".join(["  " + line for line in file_buffer.splitlines()])' + "\n"
IndentBody(file_buffer) ==
  LET lines == splitlines(file_buffer)
  IN join([i \in 1..Len(lines) |-> Ln(lines[i].ind + 2, lines[i].toks)])
     \o <<EmptyLine>>

\* One turn of the loop over extra_files_list: what is added to
\* target_extras for a file with this text.
SiblingBody(file_buffer) ==
  IndentBody(IF NAMESPACE_RE(file_buffer) # NoMatch
               THEN StripNamespace(file_buffer)
               ELSE file_buffer)

\* The target with target_extras put before the closing brace of its class.
MergedTarget(target_class, target_extras) ==
  LET closes == PartPositions(target_class, "}")
      inner == IF NAMESPACE_RE(target_class) # NoMatch
                 THEN closes \ {LastPos(closes)}
                 ELSE closes
      end_class_pos == LastPos(inner)
  IN StrCat(StrCat(SliceBefore(target_class, end_class_pos), target_extras),
            SliceFrom(target_class, end_class_pos))

\* ------------------------------------------------------------------------
\* swig_nested_fix: file names and the rewrites in main
\* ------------------------------------------------------------------------
\* A file name is the pair os.path.splitext gives: the parts of the base
\* name and the extension.
File(base, ext) == [base |-> base, ext |-> ext]

\* The string of a file name, e.g. target_name + ".cs"
NameParts(f) == f.base \o <<f.ext>>

\* 'name in line'
ContainsParts(line, name) ==
  \E t \in 1..Len(line.toks) :
     \E m \in 1..Len(line.toks[t]) :
        /\ m + Len(name) - 1 <= Len(line.toks[t])
        /\ SubSeq(line.toks[t], m, m + Len(name) - 1) = name

\* The loop over csproj_lines: the lines that name none of the moved files
\* are written back.
RewriteCsproj(text, moved) ==
  LET Keeps(line) == \A i \in 1..Len(moved) : ~ContainsParts(line, NameParts(moved[i]))
      last == text[Len(text)]
  IN SelectSeq(SubSeq(text, 1, Len(text) - 1), Keeps)
     \o <<IF Keeps(last) THEN last ELSE EmptyLine>>

\* classes: the base names of the moved files with extension ".cs"
MovedClasses(moved) ==
  LET IsCs(f) == f.ext = ".cs"
      cs == SelectSeq(moved, IsCs)
  IN [i \in 1..Len(cs) |-> cs[i].base]

\* class_re = '((A|B|...)( |\.\S* )[a-zA-Z_][a-zA-Z_0-9]*)' matches with the
\* class name starting at part m of token t: the name ends the token or is
\* followed by '.', and the next token starts with an identifier.
ClassRefAt(line, t, m, classes) ==
  /\ t < Len(line.toks)
  /\ IdentLen(line.toks[t + 1]) > 0
  /\ \E c \in 1..Len(classes) :
       LET e == m + Len(classes[c]) - 1
       IN /\ e <= Len(line.toks[t])
          /\ SubSeq(line.toks[t], m, e) = classes[c]
          /\ e = Len(line.toks[t]) \/ line.toks[t][e + 1] = "."

\* class_re.sub(target_name + r".\1", line), from part m of token t on; the
\* match takes the identifier that starts the next token.
RECURSIVE QualifyFrom(_, _, _, _, _)
QualifyFrom(line, t, m, classes, target_name) ==
  IF t > Len(line.toks) THEN <<>>
  ELSE IF m > Len(line.toks[t])
    THEN QualifyFrom(line, t + 1, 1, classes, target_name)
  ELSE IF ClassRefAt(line, t, m, classes)
    THEN << [tok |-> t, part |-> m] >>
         \o QualifyFrom(line, t + 1, IdentLen(line.toks[t + 1]) + 1, classes, target_name)
  ELSE QualifyFrom(line, t, m + 1, classes, target_name)

\* class_re with no class to name, '(()( |\.\S* )[a-zA-Z_][a-zA-Z_0-9]*)',
\* matches at the space in front of a token that starts with an identifier
\* (m = 0 stands for that space) and at a '.' of a token whose next token
\* starts with one; a match at the space is recorded at the end of the token
\* before it, token 0 being the indentation.
RECURSIVE QualifyNoClassFrom(_, _, _)
QualifyNoClassFrom(line, t, m) ==
  IF t > Len(line.toks) THEN <<>>
  ELSE IF m > Len(line.toks[t]) THEN QualifyNoClassFrom(line, t + 1, 0)
  ELSE IF m = 0
    THEN IF (t > 1 \/ line.ind > 0) /\ IdentLen(line.toks[t]) > 0
           THEN << [tok |-> t - 1,
                    part |-> IF t = 1 THEN 1 ELSE Len(line.toks[t - 1]) + 1] >>
                \o QualifyNoClassFrom(line, t, IdentLen(line.toks[t]) + 1)
           ELSE QualifyNoClassFrom(line, t, 1)
  ELSE IF /\ line.toks[t][m] = "."
          /\ t < Len(line.toks)
          /\ IdentLen(line.toks[t + 1]) > 0
    THEN << [tok |-> t, part |-> m] >>
         \o QualifyNoClassFrom(line, t + 1, IdentLen(line.toks[t + 1]) + 1)
  ELSE QualifyNoClassFrom(line, t, m + 1)

\* The token with target_name + "." put in front of the part where a match
\* starts.
RECURSIVE InsertTarget(_, _, _)
InsertTarget(tok, starts, target_name) ==
  IF tok = <<>> THEN (IF 1 \in starts THEN target_name \o <<".">> ELSE <<>>)
  ELSE (IF 1 \in starts THEN target_name \o <<".">> ELSE <<>>)
       \o <<tok[1]>>
       \o InsertTarget(Tail(tok), {x - 1 : x \in starts}, target_name)

QualifyLine(line, classes, target_name) ==
  LET found == IF classes = <<>> THEN QualifyNoClassFrom(line, 1, 0)
               ELSE QualifyFrom(line, 1, 1, classes, target_name)
      StartsIn(t) == {found[i].part : i \in {j \in 1..Len(found) : found[j].tok = t}}
      toks == [t \in 1..Len(line.toks) |->
                 InsertTarget(line.toks[t], StartsIn(t), target_name)]
  IN IF StartsIn(0) = {} THEN Ln(line.ind, toks)
     ELSE Ln(line.ind - 1, <<target_name \o <<".">> >> \o toks)

\* The loop over pinvoke_lines.
RewritePinvoke(text, moved, target_name) ==
  [l \in 1..Len(text) |-> QualifyLine(text[l], MovedClasses(moved), target_name)]

\* ------------------------------------------------------------------------
\* swig_commenter: the expressions it searches lines for.  A file is the
\* list of its lines, as readlines() gives them.
\* ------------------------------------------------------------------------
\* The '(\w+)' group at the start of a token.
Word(tok) == SubSeq(tok, 1, IdentLen(tok))

\* line.strip().startswith(prefix)
StripStartsWith(line, prefix) ==
  line.toks # <<>> /\ line.toks[1][1] = prefix

DictGet(dict, key, default) ==
  IF key \in DOMAIN dict THEN dict[key] ELSE default

\* r'^\s*(?:class|struct) (\w+).*$'
CPP_CLASS_DECLARATION_REGEX(line) ==
  IF /\ Len(line.toks) >= 2
     /\ line.toks[1] \in {T("class"), T("struct")}
     /\ IdentLen(line.toks[2]) > 0
    THEN Word(line.toks[2]) ELSE NoMatch

\* r'^\s*namespace (\w+).*$'
CPP_NAMESPACE_DECLARATION_REGEX(line) ==
  IF /\ Len(line.toks) >= 2
     /\ line.toks[1] = T("namespace")
     /\ IdentLen(line.toks[2]) > 0
    THEN Word(line.toks[2]) ELSE NoMatch

\* The word of token j is followed by '\s*{'.
BraceFollows(line, j) ==
  LET tok == line.toks[j]
  IN \/ Len(tok) > IdentLen(tok) /\ tok[IdentLen(tok) + 1] = "{"
     \/ /\ Len(tok) = IdentLen(tok) /\ j < Len(line.toks)
        /\ line.toks[j + 1][1] = "{"

\* r'^\s*enum\s*(?:class\s*)?(\w+)\s*{'
CPP_ENUM_DECLARATION_REGEX(line) ==
  LET names == {j \in 2..Len(line.toks) :
                  /\ j = 2 \/ (j = 3 /\ line.toks[2] = T("class"))
                  /\ IdentLen(line.toks[j]) > 0
                  /\ BraceFollows(line, j)}
  IN IF Len(line.toks) >= 2 /\ line.toks[1] = T("enum") /\ names # {}
       THEN Word(line.toks[Greatest(names)]) ELSE NoMatch

\* r'^\s*(\w+).*$'
CPP_ENUM_VALUE_IDENTIFIER_REGEX(line) ==
  IF line.toks # <<>> /\ IdentLen(line.toks[1]) > 0
    THEN Word(line.toks[1]) ELSE NoMatch

\* r'^(?:static )?\s*const\s+char\s*\*\s*(?:const)?\s+(\w+)'
CPP_GLOBAL_STRING_REGEX(line) ==
  LET toks == IF line.toks # <<>> /\ line.toks[1] = T("static") /\ line.ind = 0
                THEN Tail(line.toks) ELSE line.toks
      \* the tokens after 'const char *'
      rest == IF Len(toks) >= 2 /\ toks[1] = T("const") /\ toks[2] = <<"char", "*">>
                THEN SubSeq(toks, 3, Len(toks))
              ELSE IF /\ Len(toks) >= 3 /\ toks[1] = T("const")
                      /\ toks[2] = T("char") /\ toks[3] = T("*")
                THEN SubSeq(toks, 4, Len(toks))
              ELSE <<>>
  IN IF line.toks # <<>> /\ line.toks[1] = T("static") /\ line.ind > 0 THEN NoMatch
     ELSE IF rest = <<>> THEN NoMatch
     ELSE IF Len(rest) >= 2 /\ rest[1] = T("const") /\ IdentLen(rest[2]) > 0
       THEN Word(rest[2])
     ELSE Word(rest[1])

\* '};' in line
ClosesEnum(line) ==
  \E t \in 1..Len(line.toks) : \E m \in 1..(Len(line.toks[t]) - 1) :
     line.toks[t][m] = "}" /\ line.toks[t][m + 1] = ";"

\* r'^\s*(?:public|private) .*(?:class|struct) (?:Firebase)?(\w+).*$'
CSHARP_CLASS_DECLARATION_REGEX(line) ==
  LET at == {j \in 2..(Len(line.toks) - 1) :
               /\ line.toks[j][Len(line.toks[j])] \in {"class", "struct"}
               /\ IdentLen(line.toks[j + 1]) > 0}
      name == Word(line.toks[Greatest(at) + 1])
  IN IF line.toks # <<>> /\ line.toks[1] \in {T("public"), T("private")} /\ at # {}
       THEN (IF name[1] = "Firebase" /\ Len(name) > 1 THEN Tail(name) ELSE name)
       ELSE NoMatch

\* r'^\s*(?:public|private) enum (\w+).*$'
CSHARP_ENUM_DECLARATION_REGEX(line) ==
  IF /\ Len(line.toks) >= 3
     /\ line.toks[1] \in {T("public"), T("private")}
     /\ line.toks[2] = T("enum")
     /\ IdentLen(line.toks[3]) > 0
    THEN Word(line.toks[3]) ELSE NoMatch

CSHARP_ENUM_VALUE_IDENTIFIER_REGEX(line) == CPP_ENUM_VALUE_IDENTIFIER_REGEX(line)

\* r'public (?:static)? string (\w+) {'
CSHARP_PROPERTY_REGEX(line) ==
  LET at == {j \in 1..(Len(line.toks) - 4) :
               /\ line.toks[j][Len(line.toks[j])] = "public"
               /\ line.toks[j + 1] = T("static")
               /\ line.toks[j + 2][1] = "string" /\ Len(line.toks[j + 2]) = 1
               /\ IsIdent(line.toks[j + 3])
               /\ line.toks[j + 4][1] = "{"}
  IN IF at # {} THEN line.toks[Least(at) + 3] ELSE NoMatch

\* c.upper() for the first character of a word
Upper(part) ==
  CASE part = "firebase" -> "Firebase"
    [] part = "auth" -> "Auth"
    [] part = "app" -> "App"
    [] part = "arg" -> "Arg"
    [] part = "id" -> "Id"
    [] OTHER -> part

RECURSIVE CamelFrom(_, _)
CamelFrom(string, capitalize) ==
  IF string = <<>> THEN <<>>
  ELSE IF string[1] = "_" THEN CamelFrom(Tail(string), TRUE)
  ELSE <<IF capitalize THEN Upper(string[1]) ELSE string[1]>>
       \o CamelFrom(Tail(string), FALSE)

snake_case_to_camel_case(string) == CamelFrom(string, TRUE)

indentation(line) == line.ind

correct_comment_indentation(comment, indent) ==
  [i \in 1..Len(comment) |-> Ln(indent, comment[i].toks)]

\* FLAGS.namespace_prefix
namespace_prefix == <<>>

\* ------------------------------------------------------------------------
\* swig_commenter: one turn of each of its two loops
\* ------------------------------------------------------------------------
\* most_recent_enum = None
NoEnum == <<>>

\* ''.join([])
NoComment == <<>>

\* comments = {'classes': {}, 'enums': {}, 'properties': {}}
EmptyComments ==
  [classes |-> EmptyMapping, enums |-> EmptyMapping, properties |-> EmptyMapping]

\* comments['classes'].get(class_name, '') or ''.join(most_recent_comment)
ClassComment(classes, class_name, most_recent_comment) ==
  PyOr(DictGet(classes, class_name, NoComment), most_recent_comment)

\* A scan that keeps the block it has read.
ClearComment_kept(most_recent_comment) == most_recent_comment

\* 'if not parsing_comment: most_recent_comment = []'
ClearComment(most_recent_comment) == <<>>

\* The body of 'for line in input_file:' in scan_input_file.
\* st is [comments, most_recent_comment, most_recent_enum].
ScanInputStep(st, line) ==
  LET comments == st.comments
      recent == st.most_recent_comment
      cleared == [st EXCEPT !.most_recent_comment = ClearComment(recent)]
  IN IF StripStartsWith(line, "///")
       THEN [st EXCEPT !.most_recent_comment = Append(recent, line)]
     ELSE IF StripStartsWith(line, "//") THEN cleared
     ELSE IF CPP_CLASS_DECLARATION_REGEX(line) # NoMatch
       THEN [cleared EXCEPT !.comments.classes =
               MappingPut(@, CPP_CLASS_DECLARATION_REGEX(line),
                          ClassComment(comments.classes,
                                       CPP_CLASS_DECLARATION_REGEX(line), recent))]
     ELSE IF CPP_NAMESPACE_DECLARATION_REGEX(line) # NoMatch
       THEN [cleared EXCEPT !.comments.classes =
               MappingPut(@, namespace_prefix \o snake_case_to_camel_case(
                               CPP_NAMESPACE_DECLARATION_REGEX(line)), recent)]
     ELSE IF CPP_ENUM_DECLARATION_REGEX(line) # NoMatch
       THEN [cleared EXCEPT
               !.most_recent_enum = CPP_ENUM_DECLARATION_REGEX(line),
               !.comments.enums =
                  MappingPut(@, CPP_ENUM_DECLARATION_REGEX(line),
                             [comment |-> recent, values |-> EmptyMapping])]
     ELSE IF CPP_GLOBAL_STRING_REGEX(line) # NoMatch
       THEN [cleared EXCEPT !.comments.properties =
               MappingPut(@, CPP_GLOBAL_STRING_REGEX(line), recent)]
     ELSE IF st.most_recent_enum # NoEnum /\ ClosesEnum(line)
       THEN [cleared EXCEPT !.most_recent_enum = NoEnum]
     ELSE IF /\ st.most_recent_enum # NoEnum
             /\ CPP_ENUM_VALUE_IDENTIFIER_REGEX(line) # NoMatch
       THEN [cleared EXCEPT !.comments.enums[st.most_recent_enum].values =
               MappingPut(@, CPP_ENUM_VALUE_IDENTIFIER_REGEX(line), recent)]
     ELSE cleared

\* A loop that never sees the brace that closes an enum.
HasCloseBrace_never(line) == FALSE

\* 'elif '}' in line:'
HasCloseBrace(line) == count(line, "}") > 0

\* The body of 'for line in file_content:' in process_output_file: what is
\* written for the line and the enum the next line is in.
\* A writer that puts the comment in the place of the line.
Written_instead(comment_lines, line) ==
  IF comment_lines = <<>> THEN <<line>> ELSE comment_lines

\* 'output_file.write(correct_comment_indentation(...))', when there is a
\* comment, and 'output_file.write(line)'
Written(comment_lines, line) == comment_lines \o <<line>>

ProcessOutputStep(comments, most_recent_enum, line) ==
  LET Indented(comment) == correct_comment_indentation(comment, indentation(line))
      value == CSHARP_ENUM_VALUE_IDENTIFIER_REGEX(line)
      class_name == CSHARP_CLASS_DECLARATION_REGEX(line)
      enum_name == CSHARP_ENUM_DECLARATION_REGEX(line)
      property_name == CSHARP_PROPERTY_REGEX(line)
      Result(comment, enum) ==
        [written |-> Written(Indented(comment), line), most_recent_enum |-> enum]
  IN IF most_recent_enum # NoEnum
       THEN IF value # NoMatch
              THEN Result(DictGet(comments.enums[most_recent_enum].values,
                                  value, NoComment), most_recent_enum)
            ELSE IF HasCloseBrace(line) THEN Result(NoComment, NoEnum)
            ELSE Result(NoComment, most_recent_enum)
     ELSE IF class_name # NoMatch
       THEN Result(PyOr(DictGet(comments.classes, class_name, NoComment),
                        DictGet(comments.classes, <<"Firebase">> \o class_name,
                                NoComment)), NoEnum)
     ELSE IF enum_name # NoMatch
       THEN IF enum_name \in DOMAIN comments.enums
              THEN Result(comments.enums[enum_name].comment, enum_name)
              ELSE Result(NoComment, NoEnum)
     ELSE IF property_name # NoMatch
       THEN Result(DictGet(comments.properties, property_name, NoComment), NoEnum)
     ELSE Result(NoComment, NoEnum)

\* ------------------------------------------------------------------------
\* post_process and apply_post_process
\* ------------------------------------------------------------------------
VARIABLES
  rules,          \* post_process: the rule list 'processes' of the caller
  files,          \* the directory: path -> text of the file
  run,            \* which run of post_process over the directory this is
  path_ix,        \* post_process: position of 'path' in 'paths'
  pc,             \* the statement control is at
  read_buffer,    \* post_process: file_buffer, the text read from the file
  file_buffer,    \* apply_post_process: file_buffer
  processes,      \* apply_post_process: processes, the active rule list
  proc_ix,        \* apply_post_process: position of 'proc' in 'processes'
  in_effect,      \* apply_post_process: processors_still_in_effect
  iteration,      \* apply_post_process: iteration
  enum_mapping,   \* the SWIGEnumPostProcessing object's enum_mapping
  writes,         \* history: path -> number of f.write calls in this run
  pass_log,       \* history: the rule calls of the current (or last) pass
  changed_passes  \* history: passes of this call in which the text changed

\* One call of one rule
VARIABLES
  r_proc,         \* the rule called
  r_file_str,     \* __call__: file_str
  r_iteration,    \* __call__: iteration
  r_result,       \* the text the call returned
  r_pc

\* The loop of FixSealedClasses.__call__ over the lines of a file
VARIABLES
  s_class_stack,  \* class_stack
  s_scope_count,  \* scope_count
  s_line_number,  \* line_number
  s_line_in,      \* the line read last, as it was in the file
  s_line_out,     \* the line appended to output for it
  s_open,         \* history: what opened each brace that is still open
  s_member_of     \* history: what the innermost open brace belonged to when
                  \* the last line was read

\* swig_nested_fix: main and reparent_files
VARIABLES
  n_disk,             \* the directory: file name -> content
  n_disk0,            \* history: the directory when main started
  n_files,            \* main: files
  n_target_name,      \* main: target_name
  n_module_name,      \* main: module_name
  n_ix,               \* position of cs_filename in extra_files_list
  n_target_extras,    \* reparent_files: target_extras
  n_common_namespace, \* reparent_files: common_namespace
  n_target_class,     \* reparent_files: target_class
  n_pc

VARIABLES
  k_comments,            \* main: comments
  k_most_recent_comment, \* scan_input_file: most_recent_comment
  k_most_recent_enum,    \* most_recent_enum of the loop that is running
  k_inputs,              \* how many input files have been opened
  k_lines,               \* how many input lines have been read
  k_file,                \* the output file on disk
  k_file0,               \* history: the output file when it was opened
  k_file_content,        \* process_output_file: file_content
  k_pos,                 \* position of 'line' in file_content
  k_run,                 \* which run over the output file this is
  k_line,                \* scan_input_file: the line read last
  k_pc

VARIABLES
  x_in_file,             \* the file FLAGS.in_file on disk
  x_out_file,            \* the file FLAGS.out_file on disk
  x_in_file0,            \* history: FLAGS.in_file when main started
  x_out_file0,           \* history: FLAGS.out_file when main started
  x_language,            \* FLAGS.language
  x_clear_in_file,       \* FLAGS.clear_in_file
  x_contents,            \* swig_fix.main: contents
  x_new_contents,        \* swig_fix.main: new_contents
  x_calls,               \* history: number of calls of apply_post_process
  x_pc

VARIABLES
  a_output,              \* RenameArgsFromSnakeToCamelCase.__call__: output
  a_function_stack,      \* function_stack
  a_scope_count,         \* scope_count
  a_line_number,         \* line_number
  a_expected,            \* history: the lines read, renamed as documented
  a_open                 \* history: what each open brace belongs to

bvars == <<rules, files, run, path_ix, pc, read_buffer, file_buffer, processes,
           proc_ix, in_effect, iteration, enum_mapping, writes, pass_log,
           changed_passes>>
rvars == <<r_proc, r_file_str, r_iteration, r_result, r_pc>>
svars == <<s_class_stack, s_scope_count, s_line_number, s_line_in, s_line_out,
           s_open, s_member_of>>
nvars == <<n_disk, n_disk0, n_files, n_target_name, n_module_name, n_ix,
           n_target_extras, n_common_namespace, n_target_class, n_pc>>
kvars == <<k_comments, k_most_recent_comment, k_most_recent_enum, k_inputs,
           k_lines, k_file, k_file0, k_file_content, k_pos, k_run, k_line, k_pc>>
xvars == <<x_in_file, x_out_file, x_in_file0, x_out_file0, x_language,
           x_clear_in_file, x_contents, x_new_contents, x_calls, x_pc>>
avars == <<a_output, a_function_stack, a_scope_count, a_line_number, a_expected,
           a_open>>
vars == <<bvars, rvars, svars, nvars, kvars, xvars, avars>>

NoText == <<>>

\* The variables of the parts of the program a specification leaves out.
IdleBatch ==
  /\ rules = <<>> /\ files = <<>> /\ run = 0 /\ path_ix = 0 /\ pc = "idle"
  /\ read_buffer = NoText /\ file_buffer = NoText /\ processes = <<>>
  /\ proc_ix = 0 /\ in_effect = {} /\ iteration = 0 /\ enum_mapping = <<>>
  /\ writes = <<>> /\ pass_log = <<>> /\ changed_passes = 0
IdleRule ==
  /\ r_proc = "" /\ r_file_str = NoText /\ r_iteration = 0 /\ r_result = NoText
  /\ r_pc = "idle"
IdleScan ==
  /\ s_class_stack = <<>> /\ s_scope_count = 0 /\ s_line_number = 0
  /\ s_line_in = EmptyLine /\ s_line_out = EmptyLine /\ s_open = <<>>
  /\ s_member_of = ""
IdleCommenter ==
  /\ k_comments = <<>> /\ k_most_recent_comment = <<>> /\ k_most_recent_enum = <<>>
  /\ k_inputs = 0 /\ k_lines = 0 /\ k_file = <<>> /\ k_file0 = <<>>
  /\ k_file_content = <<>> /\ k_pos = 0 /\ k_run = 0 /\ k_line = <<>>
  /\ k_pc = "idle"
IdleFix ==
  /\ x_in_file = <<>> /\ x_out_file = <<>> /\ x_in_file0 = <<>>
  /\ x_out_file0 = <<>> /\ x_language = ""
  /\ x_clear_in_file = FALSE /\ x_contents = <<>> /\ x_new_contents = <<>>
  /\ x_calls = 0 /\ x_pc = "idle"
IdleArgs ==
  /\ a_output = <<>> /\ a_function_stack = <<>> /\ a_scope_count = 0
  /\ a_line_number = 0 /\ a_expected = <<>> /\ a_open = <<>>
IdleNested ==
  /\ n_disk = <<>> /\ n_disk0 = <<>> /\ n_files = <<>> /\ n_target_name = <<>>
  /\ n_module_name = <<>> /\ n_ix = 0 /\ n_target_extras = NoText
  /\ n_common_namespace = <<>> /\ n_target_class = NoText /\ n_pc = "idle"

\* paths, in the order os.listdir gave them
Paths == <<"App.cs", "Auth.cs">>

BatchRules == {"SWIGEnumPostProcessing", "AddPInvokeAttribute", "FixSealedClasses",
               "Unstable"}

RuleLists(S) == UNION {[1..n -> S] : n \in 0..MaxRules}

\* A driver with a limit on the number of passes.
LoopContinues_limited(procs, iter) == procs # <<>> /\ iter < 2

\* 'while processes:'
LoopContinues(procs, iter) == procs # <<>>

\* A filter that keeps every rule as long as some rule changed the text.
Survivors_all(procs, still) == IF still # {} THEN procs ELSE <<>>

\* A filter over the caller's list, which puts back the rules that earlier
\* passes dropped.
Survivors_revived(procs, still) ==
  LET Keeps(x) == x \in still \/ \A i \in 1..Len(procs) : procs[i] # x
  IN SelectSeq(rules, Keeps)

\* 'processes = [x for x in processes if x in processors_still_in_effect]'
Survivors(procs, still) ==
  LET Keeps(x) == x \in still IN SelectSeq(procs, Keeps)

\* A batch runner that writes every file back.
WriteNeeded_always(before, after) == TRUE

\* 'if file_buffer != file_buffer_after:' in post_process
WriteNeeded(before, after) == before # after

InitBatch ==
  /\ rules \in RuleLists(BatchRules)
  /\ files \in [{Paths[i] : i \in 1..Len(Paths)} -> FileTexts]
  /\ run = 1
  /\ path_ix = 1
  /\ pc = "next"
  /\ read_buffer = NoText
  /\ file_buffer = NoText
  /\ processes = <<>>
  /\ proc_ix = 0
  /\ in_effect = {}
  /\ iteration = 0
  /\ enum_mapping = EmptyMapping
  /\ writes = [p \in {Paths[i] : i \in 1..Len(Paths)} |-> 0]
  /\ pass_log = <<>>
  /\ changed_passes = 0
  /\ IdleRule /\ IdleScan /\ IdleNested /\ IdleCommenter /\ IdleFix
  /\ IdleArgs

\* A driver that filters the list of its caller in place: the next call is
\* given what the call before left of it.
PassedProcesses_filtered == processes

\* The argument 'processes' of 'apply_post_process(file_buffer, path,
\* processes)' in post_process: the list post_process was given.
PassedProcesses == rules

\* post_process, 'with open(path, 'r+') as f: file_buffer = f.read()' and the
\* entry of apply_post_process(file_buffer, path, processes).
OpenFile ==
  /\ pc = "next"
  /\ path_ix <= Len(Paths)
  /\ read_buffer' = files[Paths[path_ix]]
  /\ file_buffer' = files[Paths[path_ix]]
  /\ processes' = PassedProcesses
  /\ iteration' = 0
  /\ in_effect' = {}
  /\ proc_ix' = 0
  /\ pass_log' = <<>>
  /\ changed_passes' = 0
  /\ pc' = "while"
  /\ UNCHANGED <<rules, files, run, path_ix, enum_mapping, writes>>
  /\ UNCHANGED <<rvars, svars, nvars, kvars, xvars, avars>>

\* 'while processes:' holds: a pass starts.
BeginPass ==
  /\ pc = "while"
  /\ LoopContinues(processes, iteration)
  /\ iteration < MaxPasses
  /\ in_effect' = {}
  /\ proc_ix' = 1
  /\ pass_log' = <<>>
  /\ pc' = "for"
  /\ UNCHANGED <<rules, files, run, path_ix, read_buffer, file_buffer, processes,
                 iteration, enum_mapping, writes, changed_passes>>
  /\ UNCHANGED <<rvars, svars, nvars, kvars, xvars, avars>>

\* One turn of 'for proc in processes:' in which proc returns.
ApplyProc ==
  /\ pc = "for"
  /\ proc_ix <= Len(processes)
  /\ LET proc == processes[proc_ix]
         res == Call(proc, file_buffer, iteration, enum_mapping)
     IN /\ res.text # Raised
        /\ in_effect' = IF res.text # file_buffer THEN in_effect \cup {proc} ELSE in_effect
        /\ file_buffer' = res.text
        /\ enum_mapping' = res.mapping
        /\ pass_log' = Append(pass_log, [proc |-> proc, before |-> file_buffer,
                                         after |-> res.text, iteration |-> iteration])
  /\ proc_ix' = proc_ix + 1
  /\ UNCHANGED <<rules, files, run, path_ix, pc, read_buffer, processes, iteration,
                 writes, changed_passes>>
  /\ UNCHANGED <<rvars, svars, nvars, kvars, xvars, avars>>

\* One turn of the loop in which proc raises: the exception leaves
\* apply_post_process and post_process, and the file is closed unwritten.
ProcRaises ==
  /\ pc = "for"
  /\ proc_ix <= Len(processes)
  /\ Call(processes[proc_ix], file_buffer, iteration, enum_mapping).text = Raised
  /\ pc' = "raised"
  /\ UNCHANGED <<rules, files, run, path_ix, read_buffer, file_buffer, processes,
                 proc_ix, in_effect, iteration, enum_mapping, writes, pass_log,
                 changed_passes>>
  /\ UNCHANGED <<rvars, svars, nvars, kvars, xvars, avars>>

\* The end of a pass: 'iteration += 1' and the filtering of processes.
EndPass ==
  /\ pc = "for"
  /\ proc_ix > Len(processes)
  /\ iteration' = iteration + 1
  /\ processes' = Survivors(processes, in_effect)
  /\ changed_passes' = IF in_effect # {} THEN changed_passes + 1 ELSE changed_passes
  /\ pc' = "while"
  /\ UNCHANGED <<rules, files, run, path_ix, read_buffer, file_buffer, proc_ix,
                 in_effect, enum_mapping, writes, pass_log>>
  /\ UNCHANGED <<rvars, svars, nvars, kvars, xvars, avars>>

\* 'while processes:' fails: 'return file_buffer'.
Return ==
  /\ pc = "while"
  /\ ~LoopContinues(processes, iteration)
  /\ pc' = "returned"
  /\ UNCHANGED <<rules, files, run, path_ix, read_buffer, file_buffer, processes,
                 proc_ix, in_effect, iteration, enum_mapping, writes, pass_log,
                 changed_passes>>
  /\ UNCHANGED <<rvars, svars, nvars, kvars, xvars, avars>>

\* post_process: 'if file_buffer != file_buffer_after: f.write(...);
\* f.truncate()' and the end of the with block.
CloseFile ==
  /\ pc = "returned"
  /\ IF WriteNeeded(read_buffer, file_buffer)
       THEN /\ files' = [files EXCEPT ![Paths[path_ix]] = file_buffer]
            /\ writes' = [writes EXCEPT ![Paths[path_ix]] = @ + 1]
       ELSE UNCHANGED <<files, writes>>
  /\ pc' = "closed"
  /\ UNCHANGED <<rules, run, path_ix, read_buffer, file_buffer, processes, proc_ix,
                 in_effect, iteration, enum_mapping, pass_log, changed_passes>>
  /\ UNCHANGED <<rvars, svars, nvars, kvars, xvars, avars>>

\* 'for path in paths:' moves on.
NextFile ==
  /\ pc = "closed"
  /\ path_ix' = path_ix + 1
  /\ pc' = "next"
  /\ UNCHANGED <<rules, files, run, read_buffer, file_buffer, processes, proc_ix,
                 in_effect, iteration, enum_mapping, writes, pass_log, changed_passes>>
  /\ UNCHANGED <<rvars, svars, nvars, kvars, xvars, avars>>

\* post_process has returned; it is called again on the same directory with
\* the same rule objects.
RunAgain ==
  /\ pc = "next"
  /\ path_ix > Len(Paths)
  /\ run < MaxRuns
  /\ run' = run + 1
  /\ path_ix' = 1
  /\ writes' = [p \in DOMAIN writes |-> 0]
  /\ UNCHANGED <<rules, files, pc, read_buffer, file_buffer, processes, proc_ix,
                 in_effect, iteration, enum_mapping, pass_log, changed_passes>>
  /\ UNCHANGED <<rvars, svars, nvars, kvars, xvars, avars>>

NextBatch ==
  \/ OpenFile \/ BeginPass \/ ApplyProc \/ ProcRaises \/ EndPass \/ Return
  \/ CloseFile \/ NextFile \/ RunAgain

Init == InitBatch
Next == NextBatch
Spec == Init /\ [][Next]_vars

\* ------------------------------------------------------------------------
\* Properties of apply_post_process and post_process
\* ------------------------------------------------------------------------
Range(seq) == {seq[i] : i \in 1..Len(seq)}

\* C1: running the driver again, with the full rule list and pass index 0, on
\* the text it returned gives that text back unchanged.  In the second run
\* of post_process every file holds the text the first run converged to.
C1_SecondRunIsNoOp ==
  (run >= 2 /\ pc = "returned") => file_buffer = read_buffer

\* C2: the number of passes apply_post_process makes before it returns is at
\* most the number of rules of the list.
C2_PassesBoundedByRules ==
  pc = "returned" => iteration <= Len(rules)

\* C2, amended: apply_post_process returns after exactly one pass more than
\* the number of passes in which some rule changed the text (after no pass
\* when the rule list is empty).
C2_PassesFollowChanges ==
  pc = "returned" =>
    iteration = IF rules = <<>> THEN 0 ELSE changed_passes + 1

\* A call with one rule that returned after three passes.
C2_Witness ==
  pc = "returned" /\ Len(rules) = 1 /\ iteration = 3 /\ changed_passes = 2

\* The rules whose call changed the text, among the calls of the logged pass.
ChangedInPass(x) ==
  \E i \in 1..Len(pass_log) :
     pass_log[i].proc = x /\ pass_log[i].before # pass_log[i].after

\* C3: within a pass the active rules are applied in list order, each to the
\* text the rule before it produced; the active list after the pass is the
\* subsequence of the rules whose call changed the text in that pass, in the
\* same order; and the function returns exactly when the active list is
\* empty.
C3_PassDiscipline ==
  /\ pc = "for" =>
       /\ processes # <<>>
       /\ Len(pass_log) = proc_ix - 1
       /\ \A i \in 1..Len(pass_log) :
            /\ pass_log[i].proc = processes[i]
            /\ pass_log[i].iteration = iteration
            /\ i > 1 => pass_log[i].before = pass_log[i - 1].after
       /\ pass_log # <<>> => file_buffer = pass_log[Len(pass_log)].after
  /\ (pc \in {"while", "returned"} /\ iteration > 0) =>
       /\ processes = SelectSeq([i \in 1..Len(pass_log) |-> pass_log[i].proc],
                                ChangedInPass)
       /\ Range(processes) \subseteq Range(rules)
  /\ pc = "returned" => processes = <<>>

\* A pass of two rules of which only the second changed the text has ended.
C3_Witness ==
  /\ pc = "while" /\ iteration = 1
  /\ Len(pass_log) = 2
  /\ pass_log[1].before = pass_log[1].after
  /\ pass_log[2].before # pass_log[2].after
  /\ processes = <<pass_log[2].proc>>

\* C5: with a rule in the list that changes the text on every call,
\* apply_post_process never returns: the rule stays in the active list and
\* the passes go on without limit.
C5_UnstableRuleNeverReturns ==
  "Unstable" \in Range(rules) =>
    /\ pc \notin {"returned", "closed"}
    /\ path_ix = 1 /\ run = 1
    /\ pc = "while" => "Unstable" \in Range(processes)

\* The loop is still running at the last pass the model follows.
C5_Witness ==
  "Unstable" \in Range(rules) /\ pc = "while" /\ iteration = MaxPasses

\* The identifier old is used in the text.
UsedIn(old, text) ==
  \E l \in 1..Len(text) : \E t \in 1..Len(text[l].toks) :
     OldName(text[l].toks[t]) = old

\* C7: once the enum rule has converged on a file, no use of an old member
\* name recorded in enum_mapping is left in that file.
C7_OldNamesRewritten ==
  (pc = "returned" /\ "SWIGEnumPostProcessing" \in Range(rules)) =>
    \A old \in DOMAIN enum_mapping : ~UsedIn(old, file_buffer)

\* C19: when apply_post_process has converged with the enum rule as its rule
\* list, the text is the text read with the prefix of each enum member
\* stripped once (one application of the rule: the rest of a member's name and
\* the text outside enum bodies are as read), and enum_mapping maps each
\* original member name to that stripped name.
C19_PrefixStrippedOnce ==
  (pc = "returned" /\ run = 1 /\ rules = <<"SWIGEnumPostProcessing">>) =>
    LET once == SWIGEnumPostProcessing(read_buffer, EmptyMapping)
    IN /\ file_buffer = once.text
       /\ \A old \in DOMAIN once.mapping :
             /\ old \in DOMAIN enum_mapping
             /\ enum_mapping[old] = once.mapping[old]

\* C8: post_process writes a file if and only if the converged text differs
\* from the text read: an unchanged file is never written, a changed one is
\* written exactly once, with the converged text.
C8_WriteIffChanged ==
  /\ pc = "closed" =>
       IF file_buffer # read_buffer
         THEN writes[Paths[path_ix]] = 1 /\ files[Paths[path_ix]] = file_buffer
         ELSE writes[Paths[path_ix]] = 0 /\ files[Paths[path_ix]] = read_buffer
  /\ \A i \in 1..Len(Paths) :
       (i > path_ix \/ (i = path_ix /\ pc # "closed")) => writes[Paths[i]] = 0
  /\ \A i \in 1..Len(Paths) : writes[Paths[i]] <= 1

\* A file was written in the first run and left alone in the second.
C8_Witness ==
  /\ run = 2 /\ pc = "closed" /\ path_ix = 1
  /\ file_buffer = read_buffer
  /\ writes[Paths[1]] = 0
  /\ read_buffer \notin FileTexts

\* ------------------------------------------------------------------------
\* One call of one rule of the library
\* ------------------------------------------------------------------------
RuleLines == {EmptyLine, PlainLine, DelegateLine, EnumLine, SealedClassLine,
              VirtualLine, TaskLine, InternalUseLine, CastLine, CloseLine}

RuleTexts == UNION {[1..n -> RuleLines] : n \in 1..MaxRuleLines}

InitRule ==
  /\ r_proc \in LibraryRules
  /\ r_file_str \in RuleTexts
  /\ r_iteration \in 0..1
  /\ r_result = NoText
  /\ r_pc = "call"
  /\ IdleBatch /\ IdleScan /\ IdleNested /\ IdleCommenter /\ IdleFix
  /\ IdleArgs

\* rule(file_str, filename, iteration)
CallRule ==
  /\ r_pc = "call"
  /\ r_result' = Call(r_proc, r_file_str, r_iteration, EmptyMapping).text
  /\ r_pc' = "called"
  /\ UNCHANGED <<r_proc, r_file_str, r_iteration>>
  /\ UNCHANGED <<bvars, svars, nvars, kvars, xvars, avars>>

NextRule == CallRule

SpecRule == InitRule /\ [][NextRule]_vars

\* Some expression the rule searches for matches somewhere in the text.
Triggers(proc, text) ==
  LET lines == splitlines(text)
      SomeLine(P(_)) == \E i \in 1..Len(lines) : P(lines[i])
      Delegate(line) == get_line_delegate(line) # NoDelegate
      Sealed(line) == \/ sealed_class_regexp(line)
                      \/ virtual_sub(line) # line
                      \/ protected_sub(line) # line
      Task(line) == AsyncMatchAt(line, TRUE) # {} \/ AsyncMatchAt(line, FALSE) # {}
      Internal(line) == InternalNameAt(line) # {}
      Cast(line) == \E t \in 1..Len(line.toks) : CastToken(line.toks[t]) # line.toks[t]
  IN CASE proc = "SWIGEnumPostProcessing" ->
            \E k \in 1..Len(TokensFrom(text, 1)) :
               EnumMatchesAt(text, TokensFrom(text, 1), k)
       [] proc = "AddPInvokeAttribute" -> SomeLine(Delegate)
       [] proc = "FixSealedClasses" -> SomeLine(Sealed)
       [] proc = "RenameAsyncMethods" -> SomeLine(Task)
       [] proc = "InternalMethodsToInternalVisibility" -> SomeLine(Internal)
       [] proc = "DynamicToReinterpretCast" -> SomeLine(Cast)

\* C4: a rule called on a text that holds none of its trigger patterns
\* returns the text unchanged, whatever the line structure of the text.
C4_NoMatchNoChange ==
  (r_pc = "called" /\ ~Triggers(r_proc, r_file_str)) => r_result = r_file_str

\* The brace depth after the first n lines.
DepthAfter(lines, n) ==
  SumSeq([i \in 1..n |-> count(lines[i], "{") - count(lines[i], "}")])

\* The brace depth goes negative, or the scope a sealed class opens is not
\* closed by the end of the file.
MalformedBraces(text) ==
  LET lines == splitlines(text)
  IN \/ \E n \in 1..Len(lines) : DepthAfter(lines, n) < 0
     \/ \E i \in 1..Len(lines) :
           /\ sealed_class_regexp(lines[i])
           /\ \A n \in i..Len(lines) : DepthAfter(lines, n) >= DepthAfter(lines, i)

\* C21: FixSealedClasses called on a text whose brace depth goes negative, or
\* in which a sealed class is not closed by the end of the text, raises
\* instead of returning a text.
C21_MalformedBracesRaise ==
  (r_pc = "called" /\ r_proc = "FixSealedClasses" /\ MalformedBraces(r_file_str))
    => r_result = Raised

\* ------------------------------------------------------------------------
\* FixSealedClasses.__call__, line by line
\* ------------------------------------------------------------------------
\* The lines of the scanned file come one at a time; the braces of the file
\* read so far never close more than was opened.
ScanLines == {SealedClassLine, PlainClassLine, MethodLine, VirtualLine,
              ProtectedLine, CloseLine}

\* What the brace a declaration line opens belongs to.
Opens(line) ==
  IF line = SealedClassLine THEN "sealed"
  ELSE IF line = PlainClassLine THEN "class"
  ELSE "method"

BraceBalance(line) == count(line, "{") - count(line, "}")

InitScan ==
  /\ s_class_stack = FixSealedInit.class_stack
  /\ s_scope_count = FixSealedInit.scope_count
  /\ s_line_number = 0
  /\ s_line_in = EmptyLine
  /\ s_line_out = EmptyLine
  /\ s_open = <<>>
  /\ s_member_of = ""
  /\ IdleBatch /\ IdleRule /\ IdleNested /\ IdleCommenter /\ IdleFix
  /\ IdleArgs

\* One turn of 'for line_number, line in enumerate(file_str.splitlines())'.
ScanLine(line) ==
  /\ s_line_number < MaxScanLines
  /\ Len(s_open) + BraceBalance(line) \in 0..MaxDepth
  /\ LET nxt == FixSealedStep([class_stack |-> s_class_stack,
                               scope_count |-> s_scope_count], line)
     IN /\ s_class_stack' = nxt.class_stack
        /\ s_scope_count' = nxt.scope_count
        /\ s_line_out' = nxt.line
  /\ s_line_number' = s_line_number + 1
  /\ s_line_in' = line
  /\ s_member_of' = IF s_open = <<>> THEN "" ELSE s_open[Len(s_open)]
  /\ s_open' = IF BraceBalance(line) > 0 THEN Append(s_open, Opens(line))
               ELSE IF BraceBalance(line) < 0
                 THEN SubSeq(s_open, 1, Len(s_open) - 1)
               ELSE s_open
  /\ UNCHANGED <<bvars, rvars, nvars, kvars, xvars, avars>>

NextScan == \E line \in ScanLines : ScanLine(line)

SpecScan == InitScan /\ [][NextScan]_vars

\* C6: a member line of a class that is not declared sealed is appended to
\* the output exactly as it was read, whatever sealed and non-sealed classes
\* came before it or enclose it.
C6_PlainClassUntouched ==
  s_member_of = "class" => s_line_out = s_line_in

\* C17: a member line of a sealed class, whether the class is top-level,
\* follows another sealed class or is nested inside one, is appended to the
\* output with 'virtual' removed and 'protected T x;' made 'private T x;'.
C17_SealedMembersRewritten ==
  s_member_of = "sealed" => s_line_out = protected_sub(virtual_sub(s_line_in))

\* ------------------------------------------------------------------------
\* swig_nested_fix.main over a directory of generated files
\* ------------------------------------------------------------------------
CsprojFile == File(<<"App">>, ".csproj")
TargetFile == File(<<"App">>, ".cs")
PinvokeFile == File(<<"AppUtil", "PINVOKE">>, ".cs")
AssemblyInfoFile == File(<<"AssemblyInfo">>, ".cs")
AnchorFiles == <<CsprojFile, TargetFile, PinvokeFile, AssemblyInfoFile>>

\* A second project file, which os.listdir may list before or after the first.
SecondCsprojFile == File(<<"Other">>, ".csproj")
SecondCsproj(place) == IF place = "absent" THEN <<>> ELSE <<SecondCsprojFile>>

SiblingFiles ==
  <<File(<<"Foo">>, ".cs"), File(<<"Bar">>, ".cs"),
    File(<<"Baz">>, ".cs"), File(<<"Qux">>, ".cs")>>

\* What a generated file declares: no namespace, or one of two.
Namespaces == {NoMatch, <<T("Firebase")>>, <<T("Other")>>}

\* A generated class file, wrapped in a namespace or not.
ClassFile(ns, base) ==
  IF ns = NoMatch
    THEN <<Ln(0, <<T("public"), T("class"), base, T("{")>>), CloseLine, EmptyLine>>
    ELSE <<Ln(0, <<T("namespace")>> \o ns \o <<T("{")>>),
           Ln(1, <<T("public"), T("class"), base, T("{")>>),
           Ln(1, <<T("}")>>),
           CloseLine, EmptyLine>>

CompileLine(f) ==
  Ln(2, <<T("<Compile"), <<"Include=\"">> \o NameParts(f) \o <<"\"", "/>">> >>)

\* The project file lists every ".cs" file of the directory.
CsprojText(listing) ==
  LET IsCs(f) == f.ext = ".cs"
      cs == SelectSeq(listing, IsCs)
  IN [i \in 1..Len(cs) |-> CompileLine(cs[i])] \o <<EmptyLine>>

\* The entry-point file refers to generated classes as parameter types.
PinvokeText ==
  <<Ln(2, <<T("static"), T("extern"), T("void"), <<"Set", "(", "Foo">>,
            <<"jarg1", ",">>, <<"Bar", ".", "Kind">>, <<"jarg2", ",">>,
            <<"App">>, <<"jarg3", ")", ";">> >>),
    Ln(2, <<T("static"), T("extern"), T("void"), <<"Get", "(", "X", "Foo">>,
            <<"jarg1", ",">>, <<"Foo", "Bar">>, <<"jarg2", ")", ";">> >>),
    EmptyLine>>

FileText(f, listing, ns_of) ==
  IF f.ext = ".csproj" THEN CsprojText(listing)
  ELSE IF f = PinvokeFile THEN PinvokeText
  ELSE IF f = AssemblyInfoFile THEN <<PlainLine, EmptyLine>>
  ELSE ClassFile(ns_of[f], f.base)

\* The directory main is given, and main about to start.
StartNested ==
  /\ \E anchors \in SUBSET (1..Len(AnchorFiles)) :
     \E n \in 0..MaxSiblings :
     \E ns_of \in [{TargetFile} \cup {SiblingFiles[i] : i \in 1..n} -> Namespaces] :
     \E place \in {"absent", "first", "last"} :
        LET IsPresent(f) == \E i \in anchors : AnchorFiles[i] = f
            listing == SecondCsproj(IF place = "first" THEN place ELSE "absent")
                       \o SelectSeq(AnchorFiles, IsPresent)
                       \o SubSeq(SiblingFiles, 1, n)
                       \o SecondCsproj(IF place = "last" THEN place ELSE "absent")
        IN /\ n_files = listing
           /\ n_disk = [f \in Range(listing) |-> FileText(f, listing, ns_of)]
  /\ n_disk0 = n_disk
  /\ n_target_name = <<>>
  /\ n_module_name = <<>>
  /\ n_ix = 0
  /\ n_target_extras = NoText
  /\ n_common_namespace = <<>>
  /\ n_target_class = NoText
  /\ n_pc = "main"

InitNested ==
  /\ StartNested
  /\ IdleBatch /\ IdleRule /\ IdleScan /\ IdleCommenter /\ IdleFix
  /\ IdleArgs

\* 'for f in files:' finding target_name and module_name
FindTargets ==
  /\ n_pc = "main"
  /\ LET cs == {i \in 1..Len(n_files) : n_files[i].ext = ".csproj"}
         pi == {i \in 1..Len(n_files) :
                  n_files[i].base[Len(n_files[i].base)] = "PINVOKE"}
     IN /\ n_target_name' = IF cs = {} THEN <<>> ELSE n_files[Greatest(cs)].base
        /\ n_module_name' =
             IF pi = {} THEN <<>>
             ELSE SubSeq(n_files[Greatest(pi)].base, 1,
                         Len(n_files[Greatest(pi)].base) - 1)
  /\ n_pc' = "found"
  /\ UNCHANGED <<n_disk, n_disk0, n_files, n_ix, n_target_extras,
                 n_common_namespace, n_target_class>>
  /\ UNCHANGED <<bvars, rvars, svars, kvars, xvars, avars>>

\* 'if not target_name:' and 'if not module_name:'
RaiseTargetMissing ==
  /\ n_pc = "found"
  /\ n_target_name = <<>> \/ n_module_name = <<>>
  /\ n_pc' = "TargetMissingException"
  /\ UNCHANGED <<n_disk, n_disk0, n_files, n_target_name, n_module_name, n_ix,
                 n_target_extras, n_common_namespace, n_target_class>>
  /\ UNCHANGED <<bvars, rvars, svars, kvars, xvars, avars>>

TargetCs == File(n_target_name, ".cs")

\* A check that takes any listing.
TargetMismatch_never == FALSE

\* 'if (target_name + ".cs") not in files:'
TargetMismatch == TargetCs \notin Range(n_files)

RaiseTargetMismatch ==
  /\ n_pc = "found"
  /\ n_target_name # <<>> /\ n_module_name # <<>>
  /\ TargetMismatch
  /\ n_pc' = "TargetMismatchException"
  /\ UNCHANGED <<n_disk, n_disk0, n_files, n_target_name, n_module_name, n_ix,
                 n_target_extras, n_common_namespace, n_target_class>>
  /\ UNCHANGED <<bvars, rvars, svars, kvars, xvars, avars>>

\* The four names main takes out of files.
Removed ==
  {File(n_target_name, ".csproj"), TargetCs,
   File(n_module_name \o <<"PINVOKE">>, ".cs"), AssemblyInfoFile}

\* files.remove of a name that is not in the list
RaiseValueError ==
  /\ n_pc = "found"
  /\ n_target_name # <<>> /\ n_module_name # <<>>
  /\ ~TargetMismatch
  /\ ~(Removed \subseteq Range(n_files))
  /\ n_pc' = "ValueError"
  /\ UNCHANGED <<n_disk, n_disk0, n_files, n_target_name, n_module_name, n_ix,
                 n_target_extras, n_common_namespace, n_target_class>>
  /\ UNCHANGED <<bvars, rvars, svars, kvars, xvars, avars>>

\* The four files.remove calls, 'if paths:' and the first lines of
\* reparent_files.
RemoveTargetFiles ==
  /\ n_pc = "found"
  /\ n_target_name # <<>> /\ n_module_name # <<>>
  /\ ~TargetMismatch
  /\ Removed \subseteq Range(n_files)
  /\ LET Stays(f) == f \notin Removed
     IN /\ n_files' = SelectSeq(n_files, Stays)
        /\ n_pc' = IF SelectSeq(n_files, Stays) = <<>> THEN "return" ELSE "reparent"
  /\ n_ix' = 1
  /\ n_target_extras' = <<EmptyLine>>
  /\ n_common_namespace' = <<>>
  /\ UNCHANGED <<n_disk, n_disk0, n_target_name, n_module_name, n_target_class>>
  /\ UNCHANGED <<bvars, rvars, svars, kvars, xvars, avars>>

\* ------------------------------------------------------------------------
\* reparent_files, called by main with the remaining files
\* ------------------------------------------------------------------------
\* The namespace check of a buffer against the one recorded so far.
Clashes(buffer) ==
  /\ NAMESPACE_RE(buffer) # NoMatch
  /\ NamespaceClash(PyOr(n_common_namespace, NAMESPACE_RE(buffer)),
                    NAMESPACE_RE(buffer))

Recorded(buffer) ==
  IF NAMESPACE_RE(buffer) # NoMatch
    THEN PyOr(n_common_namespace, NAMESPACE_RE(buffer))
    ELSE n_common_namespace

\* One turn of the first 'for cs_filename in extra_files_list:'.
ReadSibling ==
  /\ n_pc = "reparent"
  /\ n_ix <= Len(n_files)
  /\ ~Clashes(n_disk[n_files[n_ix]])
  /\ n_common_namespace' = Recorded(n_disk[n_files[n_ix]])
  /\ n_target_extras' = StrCat(n_target_extras, SiblingBody(n_disk[n_files[n_ix]]))
  /\ n_ix' = n_ix + 1
  /\ UNCHANGED <<n_disk, n_disk0, n_files, n_target_name, n_module_name,
                 n_target_class, n_pc>>
  /\ UNCHANGED <<bvars, rvars, svars, kvars, xvars, avars>>

\* The first 'raise NamespaceException'.
SiblingNamespaceException ==
  /\ n_pc = "reparent"
  /\ n_ix <= Len(n_files)
  /\ Clashes(n_disk[n_files[n_ix]])
  /\ n_common_namespace' = Recorded(n_disk[n_files[n_ix]])
  /\ n_pc' = "NamespaceException"
  /\ UNCHANGED <<n_disk, n_disk0, n_files, n_target_name, n_module_name, n_ix,
                 n_target_extras, n_target_class>>
  /\ UNCHANGED <<bvars, rvars, svars, kvars, xvars, avars>>

\* Reading the target and putting target_extras into it.
ReadTarget ==
  /\ n_pc = "reparent"
  /\ n_ix > Len(n_files)
  /\ ~Clashes(n_disk[TargetCs])
  /\ n_common_namespace' = Recorded(n_disk[TargetCs])
  /\ n_target_class' = MergedTarget(n_disk[TargetCs], n_target_extras)
  /\ n_pc' = "write"
  /\ UNCHANGED <<n_disk, n_disk0, n_files, n_target_name, n_module_name, n_ix,
                 n_target_extras>>
  /\ UNCHANGED <<bvars, rvars, svars, kvars, xvars, avars>>

\* The second 'raise NamespaceException'.
TargetNamespaceException ==
  /\ n_pc = "reparent"
  /\ n_ix > Len(n_files)
  /\ Clashes(n_disk[TargetCs])
  /\ n_common_namespace' = Recorded(n_disk[TargetCs])
  /\ n_target_class' = n_disk[TargetCs]
  /\ n_pc' = "NamespaceException"
  /\ UNCHANGED <<n_disk, n_disk0, n_files, n_target_name, n_module_name, n_ix,
                 n_target_extras>>
  /\ UNCHANGED <<bvars, rvars, svars, kvars, xvars, avars>>

\* 'target_class_file.write(target_class)'
WriteTarget ==
  /\ n_pc = "write"
  /\ n_disk' = [n_disk EXCEPT ![TargetCs] = n_target_class]
  /\ n_ix' = 1
  /\ n_pc' = "cleanup"
  /\ UNCHANGED <<n_disk0, n_files, n_target_name, n_module_name,
                 n_target_extras, n_common_namespace, n_target_class>>
  /\ UNCHANGED <<bvars, rvars, svars, kvars, xvars, avars>>

\* One turn of the second loop: 'os.remove(cs_filename)'; after the last
\* one reparent_files returns to main.
RemoveSibling ==
  /\ n_pc = "cleanup"
  /\ n_ix <= Len(n_files)
  /\ n_disk' = [f \in DOMAIN n_disk \ {n_files[n_ix]} |-> n_disk[f]]
  /\ n_ix' = n_ix + 1
  /\ n_pc' = IF n_ix = Len(n_files) THEN "csproj" ELSE "cleanup"
  /\ UNCHANGED <<n_disk0, n_files, n_target_name, n_module_name,
                 n_target_extras, n_common_namespace, n_target_class>>
  /\ UNCHANGED <<bvars, rvars, svars, kvars, xvars, avars>>

\* 'with open(... target_name + ".csproj", "r+") as csproj:'
RewriteCsprojFile ==
  /\ n_pc = "csproj"
  /\ n_disk' = [n_disk EXCEPT ![File(n_target_name, ".csproj")] =
                  RewriteCsproj(@, n_files)]
  /\ n_pc' = "pinvoke"
  /\ UNCHANGED <<n_disk0, n_files, n_target_name, n_module_name, n_ix,
                 n_target_extras, n_common_namespace, n_target_class>>
  /\ UNCHANGED <<bvars, rvars, svars, kvars, xvars, avars>>

\* 'with open(... module_name + "PINVOKE.cs", "r+") as pinvoke:'
RewritePinvokeFile ==
  /\ n_pc = "pinvoke"
  /\ n_disk' = [n_disk EXCEPT ![File(n_module_name \o <<"PINVOKE">>, ".cs")] =
                  RewritePinvoke(@, n_files, n_target_name)]
  /\ n_pc' = "return"
  /\ UNCHANGED <<n_disk0, n_files, n_target_name, n_module_name, n_ix,
                 n_target_extras, n_common_namespace, n_target_class>>
  /\ UNCHANGED <<bvars, rvars, svars, kvars, xvars, avars>>

\* 'return 0'
ReturnMain ==
  /\ n_pc = "return"
  /\ n_pc' = "done"
  /\ UNCHANGED <<n_disk, n_disk0, n_files, n_target_name, n_module_name, n_ix,
                 n_target_extras, n_common_namespace, n_target_class>>
  /\ UNCHANGED <<bvars, rvars, svars, kvars, xvars, avars>>

NextNested ==
  \/ FindTargets
  \/ RaiseTargetMissing
  \/ RaiseTargetMismatch
  \/ RaiseValueError
  \/ RemoveTargetFiles
  \/ ReadSibling
  \/ SiblingNamespaceException
  \/ ReadTarget
  \/ TargetNamespaceException
  \/ WriteTarget
  \/ RemoveSibling
  \/ RewriteCsprojFile
  \/ RewritePinvokeFile
  \/ ReturnMain

SpecNested == InitNested /\ [][NextNested]_vars

\* The namespaces declared by the files reparent_files was given, as they
\* were on disk when main started.
Declared ==
  {NAMESPACE_RE(n_disk0[f]) : f \in Range(n_files) \cup {TargetCs}} \ {NoMatch}

\* C9: reparent_files raises NamespaceException when a sibling or the target
\* declares a namespace other than the first one recorded (so it gets past
\* its reads only when all declared namespaces agree), and when it has
\* raised, every file of the directory still exists with its original
\* content.
C9_NamespaceExceptionLeavesFiles ==
  /\ n_pc = "NamespaceException" => n_disk = n_disk0
  /\ n_pc \in {"write", "cleanup", "csproj", "pinvoke"} =>
       Cardinality(Declared) <= 1
  /\ n_pc = "NamespaceException" => Cardinality(Declared) >= 2

\* A run that raised NamespaceException after reading a sibling that had
\* recorded a namespace.
C9_Witness ==
  /\ n_pc = "NamespaceException"
  /\ n_ix >= 2
  /\ Cardinality(Declared) = 2
  /\ n_target_extras # <<EmptyLine>>

\* C10: as long as the rewrite of the PINVOKE file has not completed, every
\* sibling file still exists.
C10_SiblingsKeptUntilRewrites ==
  (\E i \in 1..Len(n_files) : n_files[i] \notin DOMAIN n_disk) =>
     n_pc \in {"return", "done"}

\* ------------------------------------------------------------------------
\* Texts as Python strings: a sequence of characters, where a part of a
\* token counts as one character
\* ------------------------------------------------------------------------
Spaces(n) == [i \in 1..n |-> " "]

RECURSIVE TokChars(_)
TokChars(toks) ==
  IF toks = <<>> THEN <<>>
  ELSE IF Len(toks) = 1 THEN toks[1]
  ELSE toks[1] \o <<" ">> \o TokChars(Tail(toks))

LineChars(line) == Spaces(line.ind) \o TokChars(line.toks)

RECURSIVE Chars(_)
Chars(text) ==
  IF Len(text) = 1 THEN LineChars(text[1])
  ELSE LineChars(text[1]) \o <<"\n">> \o Chars(Tail(text))

Indices(str, ch) == {i \in 1..Len(str) : str[i] = ch}

\* str.replace("\n", "\n  ")
RECURSIVE IndentAfterNewlines(_)
IndentAfterNewlines(str) ==
  IF str = <<>> THEN <<>>
  ELSE (IF str[1] = "\n" THEN <<"\n", " ", " ">> ELSE <<str[1]>>)
       \o IndentAfterNewlines(Tail(str))

\* The string with every one of its lines indented one level and a line
\* terminator after the last one.
IndentedChars(str) ==
  LET lines == IF str # <<>> /\ str[Len(str)] = "\n"
                 THEN SubSeq(str, 1, Len(str) - 1) ELSE str
  IN IF str = <<>> THEN <<"\n">>
     ELSE <<" ", " ">> \o IndentAfterNewlines(lines) \o <<"\n">>

\* The file declares a namespace around its content.
HasWrapper(text) == text[1].toks # <<>> /\ text[1].toks[1] = T("namespace")

\* The content of a file inside its namespace wrapper, if it has one.
BodyChars(text) ==
  LET str == Chars(text)
  IN IF HasWrapper(text)
       THEN SubSeq(str, Least(Indices(str, "{")) + 1,
                        Greatest(Indices(str, "}")) - 1)
       ELSE str

RECURSIVE ExtrasChars(_, _)
ExtrasChars(disk, siblings) ==
  IF siblings = <<>> THEN <<>>
  ELSE IndentedChars(BodyChars(disk[siblings[1]]))
       \o ExtrasChars(disk, Tail(siblings))

\* The target with the bodies put right before the closing brace of its
\* class.
ExpectedTarget(disk, target, siblings) ==
  LET str == Chars(disk[target])
      closes == Indices(str, "}")
      at == IF HasWrapper(disk[target])
              THEN Greatest(closes \ {Greatest(closes)})
              ELSE Greatest(closes)
  IN SubSeq(str, 1, at - 1) \o ExtrasChars(disk, siblings)
     \o SubSeq(str, at, Len(str))

\* C11: when reparent_files has returned, the target is its original text
\* with the bodies of the siblings, in list order, each without its
\* namespace wrapper and indented one level, inserted right before the
\* closing brace of its class, and no sibling exists any more.
C11_TargetHoldsTheBodies ==
  n_pc \in {"csproj", "pinvoke"} =>
    /\ Chars(n_disk[TargetCs]) = ExpectedTarget(n_disk0, TargetCs, n_files)
    /\ \A i \in 1..Len(n_files) : n_files[i] \notin DOMAIN n_disk

\* reparent_files has returned after merging a sibling with a namespace
\* wrapper and one without into a target with a wrapper.
C11_Witness ==
  /\ n_pc = "csproj"
  /\ Len(n_files) = 2
  /\ HasWrapper(n_disk0[n_files[1]]) /\ ~HasWrapper(n_disk0[n_files[2]])
  /\ HasWrapper(n_disk0[TargetCs])
  /\ n_disk[TargetCs] # n_disk0[TargetCs]

\* The directory main started with has a ".csproj" file, a "*PINVOKE" file.
HadCsproj == \E f \in DOMAIN n_disk0 : f.ext = ".csproj"
HadPinvoke == \E f \in DOMAIN n_disk0 : f.base[Len(f.base)] = "PINVOKE"

\* C12: main raises TargetMissingException exactly when the directory has no
\* ".csproj" file or no "*PINVOKE" file, and TargetMismatchException exactly
\* when it has both but not <target>.cs; when either is raised every file of
\* the directory is as it was.
C12_MissingTargetLeavesFiles ==
  /\ n_pc \in {"TargetMissingException", "TargetMismatchException"} =>
       n_disk = n_disk0
  /\ n_pc \notin {"main", "found"} =>
       /\ n_pc = "TargetMissingException" <=> ~(HadCsproj /\ HadPinvoke)
       /\ n_pc = "TargetMismatchException" <=>
            (HadCsproj /\ HadPinvoke /\ TargetCs \notin DOMAIN n_disk0)

\* TargetMismatchException was raised in a directory that has siblings and
\* the other three files main looks for.
C12_Witness ==
  /\ n_pc = "TargetMismatchException"
  /\ Len(n_files) = 3 + MaxSiblings
  /\ AssemblyInfoFile \in DOMAIN n_disk0

\* ------------------------------------------------------------------------
\* swig_commenter.main: scan the input files, then annotate an output file
\* ------------------------------------------------------------------------
DocLineA == Ln(0, <<T("///"), T("A")>>)
DocLineB == Ln(2, <<T("///"), T("B")>>)
SlashLine == Ln(0, <<T("//"), T("note")>>)
CppClassLine == Ln(0, <<T("class"), T("Foo"), T("{")>>)
CppForwardLine == Ln(0, <<T("class"), <<"Foo", ";">> >>)
CppNamespaceLine == Ln(0, <<T("namespace"), T("firebase"), T("{")>>)
CppEnumLine == Ln(0, <<T("enum"), T("Kind"), T("{")>>)
CppValueLine == Ln(2, <<T("kA"), T("="), <<"1", ",">> >>)
CppEnumEnd == Ln(0, <<<<"}", ";">> >>)
CppStringLine == Ln(0, <<T("static"), T("const"), <<"char", "*">>, <<"Name", ";">> >>)

InputLines ==
  {DocLineA, DocLineB, SlashLine, CppClassLine, CppForwardLine, CppNamespaceLine,
   CppEnumLine, CppValueLine, CppEnumEnd, CppStringLine, EmptyLine}

CsClassLine == Ln(0, <<T("public"), T("class"), <<"Firebase", "Foo">>, T("{")>>)
CsNamespaceClassLine == Ln(0, <<T("public"), T("class"), T("Firebase"), T("{")>>)
CsEnumLine == Ln(2, <<T("public"), T("enum"), T("Kind"), T("{")>>)
CsValueLine == Ln(4, <<<<"kA", ",">> >>)
CsEnumEnd == Ln(2, <<T("}")>>)
CsPropertyLine ==
  Ln(2, <<T("public"), T("static"), T("string"), T("Name"), T("{")>>)

CsOtherEnumLine == Ln(2, <<T("public"), T("enum"), T("Other"), T("{")>>)

\* The generated files the comments are put into.
OutputFiles ==
  {<<CsClassLine, CsEnumLine, CsValueLine, CsEnumEnd, CsPropertyLine, CloseLine>>,
   <<CsNamespaceClassLine, CsPropertyLine, CloseLine>>,
   <<CsEnumLine, CsValueLine, CsEnumEnd, CsOtherEnumLine, CsValueLine, CsEnumEnd,
     CsValueLine, CsClassLine>>}

InitCommenter ==
  /\ k_comments = EmptyComments
  /\ k_most_recent_comment = <<>>
  /\ k_most_recent_enum = NoEnum
  /\ k_inputs = 1
  /\ k_lines = 0
  /\ k_file \in OutputFiles
  /\ k_file0 = k_file
  /\ k_file_content = <<>>
  /\ k_pos = 0
  /\ k_run = 0
  /\ k_line = EmptyLine
  /\ k_pc = "scan"
  /\ IdleBatch /\ IdleRule /\ IdleScan /\ IdleNested /\ IdleFix
  /\ IdleArgs

\* One turn of 'for line in input_file:'.
ScanInputLine(line) ==
  /\ k_pc = "scan"
  /\ k_lines < MaxInputLines
  /\ LET nxt == ScanInputStep([comments |-> k_comments,
                               most_recent_comment |-> k_most_recent_comment,
                               most_recent_enum |-> k_most_recent_enum], line)
     IN /\ k_comments' = nxt.comments
        /\ k_most_recent_comment' = nxt.most_recent_comment
        /\ k_most_recent_enum' = nxt.most_recent_enum
  /\ k_lines' = k_lines + 1
  /\ k_line' = line
  /\ UNCHANGED <<k_inputs, k_file, k_file0, k_file_content, k_pos, k_run, k_pc>>
  /\ UNCHANGED <<bvars, rvars, svars, nvars, xvars, avars>>

\* The next turn of 'for input_filename in FLAGS.input:'.
NextInputFile ==
  /\ k_pc = "scan"
  /\ k_inputs < MaxInputFiles
  /\ k_inputs' = k_inputs + 1
  /\ k_most_recent_comment' = <<>>
  /\ k_most_recent_enum' = NoEnum
  /\ UNCHANGED <<k_comments, k_lines, k_file, k_file0, k_file_content, k_pos,
                 k_run, k_line, k_pc>>
  /\ UNCHANGED <<bvars, rvars, svars, nvars, xvars, avars>>

\* process_output_file up to its loop: readlines, then open(..., 'w').
OpenOutput ==
  /\ k_pc \in {"scan", "closed"}
  /\ k_run < MaxRuns
  /\ k_file_content' = k_file
  /\ k_file0' = k_file
  /\ k_file' = <<>>
  /\ k_most_recent_enum' = NoEnum
  /\ k_most_recent_comment' = <<>>
  /\ k_pos' = 1
  /\ k_run' = k_run + 1
  /\ k_line' = <<>>
  /\ k_pc' = "write"
  /\ UNCHANGED <<k_comments, k_inputs, k_lines>>
  /\ UNCHANGED <<bvars, rvars, svars, nvars, xvars, avars>>

\* One turn of 'for line in file_content:'.
WriteLine ==
  /\ k_pc = "write"
  /\ k_pos <= Len(k_file_content)
  /\ LET nxt == ProcessOutputStep(k_comments, k_most_recent_enum,
                                  k_file_content[k_pos])
     IN /\ k_file' = k_file \o nxt.written
        /\ k_most_recent_enum' = nxt.most_recent_enum
  /\ k_pos' = k_pos + 1
  /\ UNCHANGED <<k_comments, k_most_recent_comment, k_inputs, k_lines, k_file0,
                 k_file_content, k_run, k_line, k_pc>>
  /\ UNCHANGED <<bvars, rvars, svars, nvars, xvars, avars>>

\* The end of the 'with' block.
CloseOutput ==
  /\ k_pc = "write"
  /\ k_pos > Len(k_file_content)
  /\ k_pc' = "closed"
  /\ UNCHANGED <<k_comments, k_most_recent_comment, k_most_recent_enum, k_inputs,
                 k_lines, k_file, k_file0, k_file_content, k_pos, k_run, k_line>>
  /\ UNCHANGED <<bvars, rvars, svars, nvars, xvars, avars>>

\* output_file.write raises IOError: 'except IOError:' reports it and the
\* function returns; of what was written, some lines have reached the file.
WriteRaisesIOError ==
  /\ k_pc = "write"
  /\ k_pos <= Len(k_file_content)
  /\ \E n \in 0..Len(k_file) : k_file' = SubSeq(k_file, 1, n)
  /\ k_pc' = "IOError"
  /\ UNCHANGED <<k_comments, k_most_recent_comment, k_most_recent_enum, k_inputs,
                 k_lines, k_file0, k_file_content, k_pos, k_run, k_line>>
  /\ UNCHANGED <<bvars, rvars, svars, nvars, xvars, avars>>

NextCommenter ==
  \/ \E line \in InputLines : ScanInputLine(line)
  \/ NextInputFile
  \/ OpenOutput
  \/ WriteLine
  \/ CloseOutput
  \/ WriteRaisesIOError

SpecCommenter == InitCommenter /\ [][NextCommenter]_vars

\* C13: a second run of process_output_file, with the same comment index,
\* on a file it has annotated leaves the file as the first run wrote it.
C13_SecondRunAddsNothing ==
  (k_run = 2 /\ k_pc = "closed") => k_file = k_file0

\* The whole loop of process_output_file: what it writes for file_content.
RECURSIVE ProcessedFrom(_, _, _)
ProcessedFrom(comments, most_recent_enum, file_content) ==
  IF file_content = <<>> THEN <<>>
  ELSE LET nxt == ProcessOutputStep(comments, most_recent_enum, file_content[1])
       IN nxt.written
          \o ProcessedFrom(comments, nxt.most_recent_enum, Tail(file_content))

\* C14: when a run has stopped on an error, a file it rewrites in place
\* holds its complete original content or its complete final content.
C14_NoPartialOutput ==
  k_pc = "IOError" =>
    k_file \in {k_file0, ProcessedFrom(k_comments, NoEnum, k_file0)}

\* A comment the index holds for a name is still there after the step.
KeepsComments(before, after) ==
  \A name \in DOMAIN before :
     before[name] # NoComment =>
       name \in DOMAIN after /\ after[name] = before[name]

\* C20: the comment index is append-only: a step of the scan never replaces
\* or removes the comment recorded for a class, an enum, an enum value or a
\* property.
C20_CommentIndexAppendOnly ==
  [][k_pc = "scan" =>
       /\ KeepsComments(k_comments.classes, k_comments'.classes)
       /\ KeepsComments(k_comments.properties, k_comments'.properties)
       /\ \A name \in DOMAIN k_comments.enums :
            /\ name \in DOMAIN k_comments'.enums
            /\ k_comments.enums[name].comment # NoComment =>
                 k_comments'.enums[name].comment = k_comments.enums[name].comment
            /\ KeepsComments(k_comments.enums[name].values,
                             k_comments'.enums[name].values)]_vars

\* ------------------------------------------------------------------------
\* cmake/swig_fix.py: NamespaceCMethodsCMake
\* ------------------------------------------------------------------------
\* The lines of a text given as the string Chars makes of it.
RECURSIVE SplitChars(_, _)
SplitChars(str, cur) ==
  IF str = <<>> THEN <<cur>>
  ELSE IF str[1] = "\n" THEN <<cur>> \o SplitChars(Tail(str), <<>>)
  ELSE SplitChars(Tail(str), Append(cur, str[1]))

LineOf(str) ==
  LET other == {i \in 1..Len(str) : str[i] # " "}
      n == IF other = {} THEN Len(str) ELSE Least(other) - 1
      rest == SubSeq(str, n + 1, Len(str))
  IN Ln(n, IF rest = <<>> THEN <<>> ELSE Unflat(rest, <<>>))

TextOf(str) ==
  LET ls == SplitChars(str, <<>>) IN [i \in 1..Len(ls) |-> LineOf(ls[i])]

\* 'namespace = FLAGS.namespace.replace('.', '_')' for --namespace=Firebase.App
module_name == "Firebase_App"

\* file_str.replace('___(', '(').replace('___"', '"')
RECURSIVE StripUnderscores(_)
StripUnderscores(str) ==
  IF str = <<>> THEN <<>>
  ELSE IF str[1] = "___" /\ Len(str) > 1 /\ str[2] \in {"(", "\""}
    THEN StripUnderscores(Tail(str))
  ELSE <<str[1]>> \o StripUnderscores(Tail(str))

\* The parts 'f[A-Za-z]+_' matches: a namespace swig has transcoded.
TranscodedNamespaces == {"fAuth_", "fApp_"}

\* How many parts after str[1] the head of a pattern takes, 0 for no match:
\* replace_regexp1 is '([ "])CSharp_Firebase(?:(?:f[A-Za-z]+_)|_)([^"(]*)' and
\* replace_regexp2 is '([ "])CSharp_([^"(]*)'.
HeadWidth(regexp, str) ==
  IF ~(Len(str) >= 2 /\ str[1] \in {" ", "\""} /\ str[2] = "CSharp_") THEN 0
  ELSE IF regexp = 2 THEN 1
  ELSE IF Len(str) >= 4 /\ str[3] = "Firebase"
          /\ str[4] \in TranscodedNamespaces \cup {"_"} THEN 3
  ELSE 0

\* The length of what '([^"(]*)' takes at the start of str.
GroupWidth(str) ==
  LET stops == {i \in 1..Len(str) : str[i] \in {"\"", "("}}
  IN IF stops = {} THEN Len(str) ELSE Least(stops) - 1

\* replace_regexp.sub(r'\g<1>%s_CSharp_\g<2>' % self.module_name, file_str)
RECURSIVE replace_regexp_sub(_, _)
replace_regexp_sub(regexp, str) ==
  IF str = <<>> THEN <<>>
  ELSE LET w == HeadWidth(regexp, str)
       IN IF w = 0 THEN <<str[1]>> \o replace_regexp_sub(regexp, Tail(str))
          ELSE LET rest == SubSeq(str, w + 2, Len(str))
                   g == GroupWidth(rest)
               IN <<str[1], module_name, "_CSharp_">> \o SubSeq(rest, 1, g)
                  \o replace_regexp_sub(regexp, SubSeq(rest, g + 1, Len(rest)))

\* NamespaceCMethodsCMake.__call__
NamespaceCMethodsCMake(file_str, iter) ==
  TextOf(replace_regexp_sub(2,
           replace_regexp_sub(1, StripUnderscores(Chars(file_str)))))

\* get_transformations(namespace)['cpp']
get_transformations(language) ==
  IF language = "cpp" THEN <<"NamespaceCMethodsCMake", "DynamicToReinterpretCast">>
  ELSE <<>>

CallTransformation(proc, file_str, iter) ==
  IF proc = "NamespaceCMethodsCMake" THEN NamespaceCMethodsCMake(file_str, iter)
  ELSE Call(proc, file_str, iter, EmptyMapping).text

\* One pass of apply_post_process from the k-th rule on: the text after the
\* pass and the rules that changed it.
RECURSIVE RunPass(_, _, _, _, _)
RunPass(buffer, procs, k, iter, still) ==
  IF k > Len(procs) THEN [text |-> buffer, in_effect |-> still]
  ELSE LET after == CallTransformation(procs[k], buffer, iter)
       IN RunPass(after, procs, k + 1, iter,
                  IF after # buffer THEN still \cup {procs[k]} ELSE still)

\* apply_post_process as a function of the text and the rule list.
RECURSIVE ApplyFrom(_, _, _)
ApplyFrom(buffer, procs, iter) ==
  IF ~LoopContinues(procs, iter) THEN buffer
  ELSE LET pass == RunPass(buffer, procs, 1, iter, {})
       IN ApplyFrom(pass.text, Survivors(procs, pass.in_effect), iter + 1)

apply_post_process(buffer, procs) == ApplyFrom(buffer, procs, 0)

\* ------------------------------------------------------------------------
\* cmake/swig_fix.py: main
\* ------------------------------------------------------------------------
\* "SWIGEXPORT void SWIGSTDCALL CSharp_FirebasefAuth_Clear___(void * jarg1) {"
ExportLine ==
  Ln(0, <<T("SWIGEXPORT"), T("void"), T("SWIGSTDCALL"),
          <<"CSharp_", "Firebase", "fAuth_", "Clear", "___", "(", "void">>,
          T("*"), <<"jarg1", ")">>, T("{")>>)

\* "SWIGEXPORT void SWIGSTDCALL CSharp_new_App(void * jarg1) {"
OldExportLine ==
  Ln(0, <<T("SWIGEXPORT"), T("void"), T("SWIGSTDCALL"),
          <<"CSharp_", "new_App", "(", "void">>,
          T("*"), <<"jarg1", ")">>, T("{")>>)

\* The empty string.
EmptyText == <<EmptyLine>>

\* The contents of FLAGS.in_file: the empty file, or generated C++.
InFileTexts ==
  {EmptyText, <<ExportLine, EmptyLine>>, <<OldExportLine, CastLine, EmptyLine>>,
   <<CastLine, EmptyLine>>, <<ExportLine, OldExportLine, EmptyLine>>}

\* A main that never takes the input for empty.
EmptyContents_never(contents) == FALSE

\* 'if not contents:'
EmptyContents(contents) == contents = EmptyText

StartFix ==
  /\ x_in_file \in InFileTexts
  /\ x_out_file \in {EmptyText, <<PlainLine, EmptyLine>>}
  /\ x_in_file0 = x_in_file
  /\ x_out_file0 = x_out_file
  /\ x_language = "cpp"
  /\ x_clear_in_file \in BOOLEAN
  /\ x_contents = EmptyText
  /\ x_new_contents = EmptyText
  /\ x_calls = 0
  /\ x_pc = "main"

\* 'with open(FLAGS.in_file, 'r') as in_file: contents = in_file.read()'
ReadInFile ==
  /\ x_pc = "main"
  /\ x_contents' = x_in_file
  /\ x_pc' = "read"
  /\ UNCHANGED <<x_in_file, x_out_file, x_in_file0, x_out_file0, x_language,
                 x_clear_in_file, x_new_contents, x_calls>>
  /\ UNCHANGED <<bvars, rvars, svars, nvars, kvars, avars>>

\* 'if not contents: ... return 0'
ReturnEmpty ==
  /\ x_pc = "read"
  /\ EmptyContents(x_contents)
  /\ x_pc' = "return"
  /\ UNCHANGED <<x_in_file, x_out_file, x_in_file0, x_out_file0, x_language,
                 x_clear_in_file, x_contents, x_new_contents, x_calls>>
  /\ UNCHANGED <<bvars, rvars, svars, nvars, kvars, avars>>

\* 'new_contents = swig_post_process.apply_post_process(contents, ...)'
ApplyTransformations ==
  /\ x_pc = "read"
  /\ ~EmptyContents(x_contents)
  /\ x_new_contents' = apply_post_process(x_contents, get_transformations(x_language))
  /\ x_calls' = x_calls + 1
  /\ x_pc' = "processed"
  /\ UNCHANGED <<x_in_file, x_out_file, x_in_file0, x_out_file0, x_language,
                 x_clear_in_file, x_contents>>
  /\ UNCHANGED <<bvars, rvars, svars, nvars, kvars, avars>>

\* 'with open(FLAGS.out_file, 'w') as out_file: out_file.write(new_contents)'
WriteOutFile ==
  /\ x_pc = "processed"
  /\ x_out_file' = x_new_contents
  /\ x_pc' = "written"
  /\ UNCHANGED <<x_in_file, x_in_file0, x_out_file0, x_language, x_clear_in_file,
                 x_contents, x_new_contents, x_calls>>
  /\ UNCHANGED <<bvars, rvars, svars, nvars, kvars, avars>>

\* 'if FLAGS.clear_in_file: with open(FLAGS.in_file, 'w') ...' and 'return 0'
ClearInFile ==
  /\ x_pc = "written"
  /\ x_in_file' = IF x_clear_in_file THEN EmptyText ELSE x_in_file
  /\ x_pc' = "return"
  /\ UNCHANGED <<x_out_file, x_in_file0, x_out_file0, x_language, x_clear_in_file,
                 x_contents, x_new_contents, x_calls>>
  /\ UNCHANGED <<bvars, rvars, svars, nvars, kvars, avars>>

NextFix ==
  \/ ReadInFile
  \/ ReturnEmpty
  \/ ApplyTransformations
  \/ WriteOutFile
  \/ ClearInFile

\* A run of swig_fix.py and a run of swig_nested_fix.py, on their own files.
InitTools ==
  /\ StartFix
  /\ StartNested
  /\ SecondCsprojFile \notin Range(n_files)
  /\ IdleBatch /\ IdleRule /\ IdleScan /\ IdleCommenter /\ IdleArgs

NextTools == NextFix \/ NextNested

SpecTools == InitTools /\ [][NextTools]_vars

\* The files main of swig_nested_fix keeps in place when nothing is moved.
NoSibling == \A f \in DOMAIN n_disk0 : \E i \in 1..Len(AnchorFiles) : AnchorFiles[i] = f

\* C15: swig_fix main given an empty input file returns without calling
\* apply_post_process, without writing the output file and without clearing
\* the input file; swig_nested_fix main given a directory with no file to move
\* returns with every file of the directory as it was.
C15_EmptyInputIsNoOp ==
  /\ (x_in_file0 = EmptyText /\ x_pc \in {"read", "return"}) =>
       /\ x_calls = 0
       /\ x_out_file = x_out_file0
       /\ x_in_file = x_in_file0
  /\ (x_in_file0 = EmptyText) => x_pc \in {"main", "read", "return"}
  /\ (NoSibling /\ n_pc \in {"return", "done"}) => n_disk = n_disk0
  /\ NoSibling =>
       n_pc \in {"main", "found", "return", "done", "TargetMissingException",
                 "TargetMismatchException", "ValueError"}

C15_Witness ==
  /\ x_in_file0 = EmptyText /\ x_pc = "return"
  /\ x_out_file0 # EmptyText /\ x_clear_in_file
  /\ NoSibling /\ n_pc = "done" /\ Len(n_files) = 0
  /\ DOMAIN n_disk0 = Range(AnchorFiles)

\* ------------------------------------------------------------------------
\* Properties of the rules inside apply_post_process
\* ------------------------------------------------------------------------
IsAttributeLine(line) ==
  \E delegate \in {"ExceptionArgumentDelegate", "FirestoreExceptionDelegate",
                   "ExceptionDelegate", "SWIGStringDelegate"} :
     line = AttributeLine(line.ind, delegate)

AttributeLines(text) == {i \in 1..Len(text) : IsAttributeLine(text[i])}

DelegateLines(text) == {i \in 1..Len(text) : get_line_delegate(text[i]) # NoDelegate}

\* The rule lists that hold AddPInvokeAttribute, once.
ListsPInvokeOnce ==
  Cardinality({k \in 1..Len(rules) : rules[k] = "AddPInvokeAttribute"}) = 1

IsWordPart(part) == part \notin NonIdentParts

\* str.strip() of a string given as its parts.
RECURSIVE Strip(_)
Strip(str) ==
  IF str = <<>> THEN <<>>
  ELSE IF str[1] = " " THEN Strip(Tail(str))
  ELSE IF str[Len(str)] = " " THEN Strip(SubSeq(str, 1, Len(str) - 1))
  ELSE str

\* str.split(',')
RECURSIVE SplitCommas(_, _)
SplitCommas(str, cur) ==
  IF str = <<>> THEN <<cur>>
  ELSE IF str[1] = "," THEN <<cur>> \o SplitCommas(Tail(str), <<>>)
  ELSE SplitCommas(Tail(str), Append(cur, str[1]))

\* function_regexp = '(public.*? )([^ (]+ *\()([^)]+)(\).*{)$' searched in the
\* line: the positions of the "(" that ends group 2 and of the ")" that
\* starts group 4, or NoMatch.  The name stands directly before its "(".
function_regexp(str) ==
  LET IsName(q, o) == /\ str[q] = " "
                      /\ q + 1 < o
                      /\ \A m \in (q + 1)..(o - 1) : str[m] \notin {" ", "("}
      Closes(o) == {c \in (o + 2)..(Len(str) - 1) :
                      /\ str[c] = ")"
                      /\ \A m \in (o + 1)..(c - 1) : str[m] # ")"}
      opens == {o \in 1..Len(str) :
                  /\ str[o] = "("
                  /\ \E p \in 1..o : \E q \in (p + 1)..o :
                        str[p] = "public" /\ IsName(q, o)
                  /\ Closes(o) # {}}
  IN IF str = <<>> \/ str[Len(str)] # "{" \/ opens = {} THEN NoMatch
     ELSE [open |-> Least(opens), close |-> Least(Closes(Least(opens)))]

\* snake_to_camel_case(identifier)
snake_to_camel_case(identifier) == CamelFrom(identifier, FALSE)

\* 'end_of_type = type_argument.rfind('>')', or rfind(' ') when that is not
\* above 0, and 'argument = type_argument[end_of_type:].strip()'.
Argument(type_argument) ==
  LET generic == {i \in 2..Len(type_argument) : type_argument[i] = ">"}
      spaces == {i \in 1..Len(type_argument) : type_argument[i] = " "}
      end_of_type == IF generic # {} THEN Greatest(generic)
                     ELSE IF spaces # {} THEN Greatest(spaces)
                     ELSE Len(type_argument)
  IN Strip(SubSeq(type_argument, end_of_type, Len(type_argument)))

\* argument_substitutions of a line function_regexp matches.
ArgumentSubstitutions(str) ==
  LET match == function_regexp(str)
      type_arguments == SplitCommas(SubSeq(str, match.open + 1, match.close - 1), <<>>)
      argument(i) == Argument(Strip(type_arguments[i]))
      Renamed(i) == argument(i) # snake_to_camel_case(argument(i))
      all == [i \in 1..Len(type_arguments) |->
                [old |-> argument(i), new |-> snake_to_camel_case(argument(i))]]
      IsRenamed(sub) == sub.old # sub.new
  IN SelectSeq(all, IsRenamed)

\* re.compile(r'(\b)' + argument + r'(\b)').sub(r'\g<1>' + camel + r'\g<2>', line)
RECURSIVE SubArgument(_, _, _, _)
SubArgument(str, old, new, before) ==
  LET n == Len(old)
      Boundary(a, b) == IsWordPart(a) # IsWordPart(b)
  IN IF str = <<>> \/ old = <<>> THEN str
     ELSE IF /\ Len(str) >= n
             /\ SubSeq(str, 1, n) = old
             /\ Boundary(before, old[1])
             /\ Boundary(old[n], IF Len(str) > n THEN str[n + 1] ELSE " ")
       THEN new \o SubArgument(SubSeq(str, n + 1, Len(str)), old, new, old[n])
     ELSE <<str[1]>> \o SubArgument(Tail(str), old, new, str[1])

\* replace_arguments(replacements, line)
RECURSIVE replace_arguments(_, _)
replace_arguments(replacements, str) ==
  IF replacements = <<>> THEN str
  ELSE replace_arguments(Tail(replacements),
         SubArgument(str, replacements[1].old, replacements[1].new, " "))

ReplaceInLine(replacements, line) ==
  LineOf(replace_arguments(replacements, LineChars(line)))

\* 'while line_index >= 0 and output[line_index].lstrip().startswith('///')':
\* the doc lines directly above, with the arguments replaced.
RECURSIVE UpdateDocString(_, _, _)
UpdateDocString(output, line_index, replacements) ==
  IF line_index >= 1 /\ StripStartsWith(output[line_index], "///")
    THEN UpdateDocString(
           [output EXCEPT ![line_index] = ReplaceInLine(replacements, @)],
           line_index - 1, replacements)
  ELSE output

\* One turn of 'for line_number, line in enumerate(file_str.splitlines())'.
RenameArgsStep(st, line) ==
  LET scope_count == st.scope_count + BraceBalance(line)
      str == LineChars(line)
      match == function_regexp(str)
      subs == ArgumentSubstitutions(str)
      stack1 == IF match = NoMatch THEN st.function_stack
                ELSE Append(st.function_stack,
                            [depth |-> scope_count, subs |-> subs])
      output1 == IF match # NoMatch /\ st.output # <<>> /\ subs # <<>>
                   THEN UpdateDocString(st.output, Len(st.output), subs)
                 ELSE st.output
      replaces == stack1 # <<>> /\ stack1[1].depth = scope_count
      pops == stack1 # <<>> /\ ~replaces /\ scope_count < stack1[1].depth
  IN [output |-> Append(output1, IF replaces THEN ReplaceInLine(stack1[1].subs, line)
                                 ELSE line),
      function_stack |-> IF pops THEN SubSeq(stack1, 1, Len(stack1) - 1) ELSE stack1,
      scope_count |-> scope_count]

\* The lines the rule scans.
\* "  /// Sets my_arg."
ArgDocLine == Ln(1, <<T("///"), T("Sets"), <<"my", "_", "arg", ".">> >>)
\* "  public void Set(int my_arg, int my_arg_id) {"
ArgSignatureLine ==
  Ln(1, <<T("public"), T("void"), <<"Set", "(", "int">>, <<"my", "_", "arg", ",">>,
          T("int"), <<"my", "_", "arg", "_", "id", ")">>, T("{")>>)
\* "  public void Get(int id) {"
ArgPlainSignatureLine ==
  Ln(1, <<T("public"), T("void"), <<"Get", "(", "int">>, <<"id", ")">>, T("{")>>)
\* "    x = my_arg + other_my_arg;"
ArgBodyLine ==
  Ln(2, <<T("x"), T("="), <<"my", "_", "arg">>, T("+"),
          <<"other", "_", "my", "_", "arg", ";">> >>)
\* "    if (my_arg) {"
ArgIfLine == Ln(2, <<T("if"), <<"(", "my", "_", "arg", ")">>, T("{")>>)

ArgLines == {ArgDocLine, ArgSignatureLine, ArgPlainSignatureLine, ArgBodyLine,
             ArgIfLine, CloseLine}

\* The renamings the parameters of a signature line call for: each parameter
\* name, the last word of its declaration, that is written in snake_case.
RECURSIVE LastWord(_)
LastWord(str) ==
  IF str = <<>> \/ ~IsWordPart(str[Len(str)]) THEN <<>>
  ELSE Append(LastWord(SubSeq(str, 1, Len(str) - 1)), str[Len(str)])

ParameterRenamings(line) ==
  LET str == LineChars(line)
      match == function_regexp(str)
      params == SplitCommas(SubSeq(str, match.open + 1, match.close - 1), <<>>)
      all == [i \in 1..Len(params) |->
                [old |-> LastWord(Strip(params[i])),
                 new |-> snake_to_camel_case(LastWord(Strip(params[i])))]]
      IsRenamed(sub) == sub.old # sub.new
  IN SelectSeq(all, IsRenamed)

IsSignature(line) == function_regexp(LineChars(line)) # NoMatch

\* The renamings of the function whose body the next line is in: those of
\* the innermost open brace that a signature line opened.
BodyRenamings(open) ==
  LET functions == {i \in 1..Len(open) : open[i].function}
  IN IF functions = {} THEN <<>> ELSE open[Greatest(functions)].renamings

InitArgs ==
  /\ a_output = <<>>
  /\ a_function_stack = <<>>
  /\ a_scope_count = 0
  /\ a_line_number = 0
  /\ a_expected = <<>>
  /\ a_open = <<>>
  /\ IdleBatch /\ IdleRule /\ IdleScan /\ IdleNested /\ IdleCommenter /\ IdleFix

\* The file is generated C#: the braces balance, and no method is declared
\* inside the body of another method.
ReadArgLine(line) ==
  /\ a_line_number < MaxArgLines
  /\ Len(a_open) + BraceBalance(line) \in 0..MaxDepth
  /\ IsSignature(line) => \A i \in 1..Len(a_open) : ~a_open[i].function
  /\ LET nxt == RenameArgsStep([output |-> a_output,
                                function_stack |-> a_function_stack,
                                scope_count |-> a_scope_count], line)
     IN /\ a_output' = nxt.output
        /\ a_function_stack' = nxt.function_stack
        /\ a_scope_count' = nxt.scope_count
  /\ a_line_number' = a_line_number + 1
  /\ a_expected' =
       IF IsSignature(line)
         THEN Append(UpdateDocString(a_expected, Len(a_expected),
                                     ParameterRenamings(line)),
                     ReplaceInLine(ParameterRenamings(line), line))
         ELSE Append(a_expected, ReplaceInLine(BodyRenamings(a_open), line))
  /\ a_open' = IF BraceBalance(line) > 0
                 THEN Append(a_open,
                             IF IsSignature(line)
                               THEN [function |-> TRUE,
                                     renamings |-> ParameterRenamings(line)]
                               ELSE [function |-> FALSE, renamings |-> <<>>])
               ELSE IF BraceBalance(line) < 0
                 THEN SubSeq(a_open, 1, Len(a_open) - 1)
               ELSE a_open
  /\ UNCHANGED <<bvars, rvars, svars, nvars, kvars, xvars>>

NextArgs == \E line \in ArgLines : ReadArgLine(line)

SpecArgs == InitArgs /\ [][NextArgs]_vars

\* C18: the rule renames each snake_case parameter of a function on the
\* signature line, on the '///' lines directly above it and on every line of
\* the body, at any brace depth, up to the closing brace, whole words only,
\* and leaves every other line as it was read.
C18_ArgumentsRenamedInBody ==
  a_output = a_expected

\* ------------------------------------------------------------------------
\* Properties of process_output_file and scan_input_file
\* ------------------------------------------------------------------------
\* The indexed enum whose body line p of the file is in: the one declared
\* last before p, outside an enum body, with no closing brace since.
RECURSIVE EnumBodyAt(_, _, _)
EnumBodyAt(comments, content, p) ==
  IF p = 1 THEN NoEnum
  ELSE LET before == EnumBodyAt(comments, content, p - 1)
           declared == CSHARP_ENUM_DECLARATION_REGEX(content[p - 1])
       IN IF before # NoEnum
            THEN (IF count(content[p - 1], "}") > 0 THEN NoEnum ELSE before)
          ELSE IF CSHARP_CLASS_DECLARATION_REGEX(content[p - 1]) = NoMatch
                  /\ declared # NoMatch /\ declared \in DOMAIN comments.enums
            THEN declared
          ELSE NoEnum

\* What is written for line p: inside the body of an indexed enum the
\* comment of the member the line names, if any, and the line; elsewhere what
\* class, enum and property matching gives.
WrittenFor(comments, content, p) ==
  LET enum == EnumBodyAt(comments, content, p)
      line == content[p]
      member == CSHARP_ENUM_VALUE_IDENTIFIER_REGEX(line)
  IN IF enum # NoEnum
       THEN (IF member # NoMatch /\ member \in DOMAIN comments.enums[enum].values
               THEN correct_comment_indentation(comments.enums[enum].values[member],
                                                indentation(line))
               ELSE <<>>) \o <<line>>
       ELSE ProcessOutputStep(comments, NoEnum, line).written

\* C22: from the declaration line of an indexed enum to its closing brace
\* each line is looked up in that enum's member comments only, and from the
\* line after the closing brace class, enum and property matching is back.
C22_EnumBodyUsesMemberMap ==
  k_pc \in {"write", "closed"} =>
    k_file = Concat([p \in 1..(k_pos - 1) |->
                       WrittenFor(k_comments, k_file_content, p)])

C22_Witness ==
  /\ k_pc = "closed" /\ k_run = 1
  /\ Len(k_file0) = 8
  /\ <<"Kind">> \in DOMAIN k_comments.enums
  /\ <<"kA">> \in DOMAIN k_comments.enums[<<"Kind">>].values
  /\ k_comments.enums[<<"Kind">>].values[<<"kA">>] # NoComment
  /\ Len(k_file) = Len(k_file0) + 1

\* The names whose comment the step has set or replaced.
Attached(before, after) ==
  {name \in DOMAIN after : name \notin DOMAIN before \/ after[name] # before[name]}

\* The comments the step has attached, over the whole index.
AttachedComments(before, after) ==
  {after.classes[name] : name \in Attached(before.classes, after.classes)}
  \cup {after.properties[name] :
          name \in Attached(before.properties, after.properties)}
  \cup {after.enums[name].comment :
          name \in {e \in DOMAIN after.enums :
                      \/ e \notin DOMAIN before.enums
                      \/ after.enums[e].comment # before.enums[e].comment}}
  \cup UNION {{after.enums[e].values[name] :
                 name \in Attached(before.enums[e].values, after.enums[e].values)} :
              e \in DOMAIN after.enums \cap DOMAIN before.enums}

\* C23: in scan_input_file a '///' line only joins the block read so far;
\* any other line leaves the accumulator empty, and a comment it attaches to
\* a declaration is the block of '///' lines read directly before it (which
\* is empty when another line has come in between).
C23_BlockAttachedOnce ==
  [][(k_pc = "scan" /\ k_lines' = k_lines + 1) =>
       IF StripStartsWith(k_line', "///")
         THEN /\ k_comments' = k_comments
              /\ k_most_recent_comment' = Append(k_most_recent_comment, k_line')
         ELSE /\ k_most_recent_comment' = <<>>
              /\ AttachedComments(k_comments, k_comments')
                   \subseteq {k_most_recent_comment}]_vars

C23_Witness ==
  /\ k_pc = "scan" /\ k_lines = 3
  /\ k_line = CppEnumLine
  /\ <<"Foo">> \in DOMAIN k_comments.classes
  /\ k_comments.classes[<<"Foo">>] = <<DocLineA>>
  /\ <<"Kind">> \in DOMAIN k_comments.enums
  /\ k_comments.enums[<<"Kind">>].comment = NoComment

\* ------------------------------------------------------------------------
\* Properties of main of swig_nested_fix with several project files
\* ------------------------------------------------------------------------
\* The ".csproj" files of the directory main started with.
CsprojFiles == {f \in DOMAIN n_disk0 : f.ext = ".csproj"}

\* C24: when the directory main of swig_nested_fix is given has no ".csproj"
\* file, or more than one, main does not return normally and every file of
\* the directory is as it was.
C24_OneTargetRequired ==
  Cardinality(CsprojFiles) # 1 =>
    /\ n_disk = n_disk0
    /\ n_pc \notin {"return", "done"}

\* A moved class is named at part m of token t as a whole identifier: no
\* identifier part stands in front of the name.
WholeNameAt(line, t, m, classes) ==
  /\ ClassRefAt(line, t, m, classes)
  /\ m = 1 \/ line.toks[t][m - 1] \in NonIdentParts

\* The line with target_name + "." in front of the whole names only.
QualifiedNames(line, classes, target_name) ==
  Ln(line.ind,
     [t \in 1..Len(line.toks) |->
        InsertTarget(line.toks[t],
                     {m \in 1..Len(line.toks[t]) : WholeNameAt(line, t, m, classes)},
                     target_name)])

\* C25: when main has regrouped a directory with one project file, the
\* PINVOKE file is the original one with '<target>.' in front of every moved
\* class named as a whole identifier (followed by a space or '.Member ' and
\* an identifier), and nothing else changed: an identifier that only
\* contains the name of a moved class is as it was.
C25_OnlyWholeNamesQualified ==
  (n_pc \in {"return", "done"} /\ n_files # <<>> /\ Cardinality(CsprojFiles) = 1)
    => n_disk[PinvokeFile] =
         [l \in 1..Len(n_disk0[PinvokeFile]) |->
            QualifiedNames(n_disk0[PinvokeFile][l], MovedClasses(n_files),
                           n_target_name)]

\* ------------------------------------------------------------------------
\* RenameAsyncMethods called on a file of method declarations, and called
\* again on what it returned
\* ------------------------------------------------------------------------
\* "  public System.Threading.Tasks.Task GetTask() {"
TaskLineGetTask == Ln(1, <<T("public"), T(TaskType), <<"GetTask", "(", ")">>, T("{")>>)
\* "  public System.Threading.Tasks.Task<int> FetchAsync(int x) {"
TaskLineAsync ==
  Ln(1, <<T("public"), <<TaskType, "<", "int", ">">>, <<"Fetch", "Async", "(", "int">>,
          <<"x", ")">>, T("{")>>)
\* "  public System.Threading.Tasks.Task PutAsync_DEPRECATED() {"
TaskLineAsyncDeprecated ==
  Ln(1, <<T("public"), T(TaskType), <<"Put", "Async", "_DEPRECATED", "(", ")">>, T("{")>>)
\* "  public System.Threading.Tasks.Task<List<int>> List() {"
TaskLineNested ==
  Ln(1, <<T("public"), <<TaskType, "<", "List", "<", "int", ">", ">">>,
          <<"List", "(", ")">>, T("{")>>)

AsyncLines == {TaskLine, TaskLineDeprecated, TaskLineGetTask, TaskLineAsync,
               TaskLineAsyncDeprecated, TaskLineNested, MethodLine, CloseLine}

AsyncTexts == UNION {[1..n -> AsyncLines] : n \in 1..MaxRuleLines}

InitAsync ==
  /\ r_proc = "RenameAsyncMethods"
  /\ r_file_str \in AsyncTexts
  /\ r_iteration \in 0..1
  /\ r_result = NoText
  /\ r_pc = "call"
  /\ IdleBatch /\ IdleScan /\ IdleNested /\ IdleCommenter /\ IdleFix
  /\ IdleArgs

\* The rule called on the text it returned, as the next pass of
\* apply_post_process calls it.
CallRuleAgain ==
  /\ r_pc = "called"
  /\ r_result # Raised
  /\ r_file_str' = r_result
  /\ r_result' = CallTransformation(r_proc, r_result, r_iteration + 1)
  /\ r_pc' = "called again"
  /\ UNCHANGED <<r_proc, r_iteration>>
  /\ UNCHANGED <<bvars, svars, nvars, kvars, xvars, avars>>

NextAsync == CallRule \/ CallRuleAgain

SpecAsync == InitAsync /\ [][NextAsync]_vars

\* System.Threading.Tasks.Task or System.Threading.Tasks.Task<T>
IsTaskType(tok) ==
  /\ tok[1] = TaskType
  /\ Len(tok) = 1 \/ (Len(tok) >= 4 /\ tok[2] = "<" /\ tok[Len(tok)] = ">")

\* The tokens of the line that are the return type of a method declaration:
\* a Task type, then a name and '(', with '{' ending the line.
TaskMethodAt(line) ==
  {i \in 1..(Len(line.toks) - 1) :
     /\ IsTaskType(line.toks[i])
     /\ IdentLen(line.toks[i + 1]) \in 1..(Len(line.toks[i + 1]) - 1)
     /\ line.toks[i + 1][IdentLen(line.toks[i + 1]) + 1] = "("
     /\ line.toks[Len(line.toks)] = T("{")}

\* C26: in the text RenameAsyncMethods returns, the name of every method
\* declared with return type Task or Task<T> ends in 'Async' or
\* 'Async_DEPRECATED' or is 'GetTask', a declaration whose name already was
\* like this is as it was, and the rule called on its own output returns it
\* unchanged.
C26_TaskMethodsRenamed ==
  /\ r_pc = "called" =>
       \A l \in 1..Len(r_file_str) :
          \A i \in TaskMethodAt(r_file_str[l]) :
             /\ KeepsName(Word(r_result[l].toks[i + 1]))
             /\ KeepsName(Word(r_file_str[l].toks[i + 1])) =>
                  r_result[l] = r_file_str[l]
  /\ r_pc = "called again" => r_result = r_file_str

\* ------------------------------------------------------------------------
\* NamespaceCMethodsCMake called on generated C++, and called again on what
\* it returned
\* ------------------------------------------------------------------------
\* "SWIGEXPORT void SWIGSTDCALL CSharp_Firebase_Clear(void * jarg1) {"
NewExportLine ==
  Ln(0, <<T("SWIGEXPORT"), T("void"), T("SWIGSTDCALL"),
          <<"CSharp_", "Firebase", "_", "Clear", "(", "void">>,
          T("*"), <<"jarg1", ")">>, T("{")>>)

\* "SWIGEXPORT void SWIGSTDCALL CSharp_Clear(void * jarg1) {"
PlainExportLine ==
  Ln(0, <<T("SWIGEXPORT"), T("void"), T("SWIGSTDCALL"),
          <<"CSharp_", "Clear", "(", "void">>,
          T("*"), <<"jarg1", ")">>, T("{")>>)

\* "  cb = CSharp_Firebase_Clear;"
ReferenceLine ==
  Ln(1, <<T("cb"), T("="), <<"CSharp_", "Firebase", "_", "Clear", ";">> >>)

\* "SWIGEXPORT void SWIGSTDCALL Firebase_App_CSharp_Clear(void * jarg1) {"
CanonicalExportLine ==
  Ln(0, <<T("SWIGEXPORT"), T("void"), T("SWIGSTDCALL"),
          <<module_name, "_CSharp_", "Clear", "(", "void">>,
          T("*"), <<"jarg1", ")">>, T("{")>>)

CMakeLines == {ExportLine, NewExportLine, PlainExportLine, OldExportLine,
               ReferenceLine, CastLine}

CMakeTexts ==
  {lines \o <<EmptyLine>> : lines \in UNION {[1..n -> CMakeLines] : n \in 1..MaxRuleLines}}

InitCMake ==
  /\ r_proc = "NamespaceCMethodsCMake"
  /\ r_file_str \in CMakeTexts
  /\ r_iteration \in 0..1
  /\ r_result = NoText
  /\ r_pc = "call"
  /\ IdleBatch /\ IdleScan /\ IdleNested /\ IdleCommenter /\ IdleFix
  /\ IdleArgs

\* transformation(file_str, filename, iteration)
CallCMake ==
  /\ r_pc = "call"
  /\ r_result' = CallTransformation(r_proc, r_file_str, r_iteration)
  /\ r_pc' = "called"
  /\ UNCHANGED <<r_proc, r_file_str, r_iteration>>
  /\ UNCHANGED <<bvars, svars, nvars, kvars, xvars, avars>>

NextCMake == CallCMake \/ CallRuleAgain

SpecCMake == InitCMake /\ [][NextCMake]_vars

\* C27: NamespaceCMethodsCMake turns a declaration of the symbol Clear in any
\* of the three spellings (CSharp_Firebasef<Sub>_Clear___, CSharp_Firebase_Clear,
\* CSharp_Clear) into the same declaration of <module>_CSharp_Clear, and called
\* on its own output it returns it unchanged.
C27_SpellingsMadeCanonical ==
  /\ (r_pc = "called" /\ r_proc = "NamespaceCMethodsCMake") =>
       \A l \in 1..Len(r_file_str) :
          r_file_str[l] \in {ExportLine, NewExportLine, PlainExportLine} =>
            r_result[l] = CanonicalExportLine
  /\ (r_pc = "called again" /\ r_proc = "NamespaceCMethodsCMake") =>
       r_result = r_file_str

\* ------------------------------------------------------------------------
\* Properties of the active rule list of apply_post_process
\* ------------------------------------------------------------------------
\* The rules called so far in the pass under way, in the order of the calls.
AppliedInPass == [i \in 1..Len(pass_log) |-> pass_log[i].proc]

\* A step inside a call leaves no rule in the active list that was not in
\* it, and a rule it calls is one of the active list.
ActiveListShrinks ==
  pc \in {"while", "for"} =>
    /\ Range(processes') \subseteq Range(processes)
    /\ Len(pass_log') = Len(pass_log) + 1 =>
         pass_log'[Len(pass_log')].proc \in Range(processes)

\* C28: pass 0 of apply_post_process calls every rule of the list, in order,
\* and a call that returns has made that pass; during the call the active
\* list never gets a rule back (what is in it after a step was in it before)
\* and only rules of the active list are called, so a rule that was dropped
\* is not called again, whatever the other rules do to the text afterwards.
C28_DroppedRulesStayDropped ==
  /\ []((pc = "for" /\ iteration = 0 /\ proc_ix > Len(processes)) =>
          AppliedInPass = rules)
  /\ []((pc = "returned" /\ rules # <<>>) => iteration >= 1)
  /\ [][ActiveListShrinks]_vars

\* In a pass after the first, a rule that was dropped would change the text
\* as it is now, and a rule still active has changed it in this pass.
C28_Witness ==
  /\ pc = "for" /\ iteration >= 1
  /\ in_effect # {}
  /\ \E x \in Range(rules) \ Range(processes) :
        Call(x, file_buffer, iteration, enum_mapping).text \notin {file_buffer, Raised}

\* post_process enters apply_post_process for a file: the active list is the
\* whole list of the caller, the pass index is 0, no rule is marked, the text
\* is the one of the file, and enum_mapping is what the files before left.
StartsAfresh ==
  (pc = "next" /\ pc' = "while") =>
    /\ processes' = rules
    /\ iteration' = 0
    /\ in_effect' = {}
    /\ file_buffer' = files[Paths[path_ix]]
    /\ enum_mapping' = enum_mapping

\* C29: no step of post_process or apply_post_process changes the rule list
\* of the caller, and the convergence of every file starts with that whole
\* list, in its order, and pass index 0, whatever was dropped for the files
\* before; of the state of the calls before only enum_mapping is kept.
C29_RuleListNotMutated ==
  [][rules' = rules /\ StartsAfresh]_vars

\* The second file is about to be converged with both rules of the list,
\* after the call for the first file has changed it, dropped every rule and
\* left a renaming in enum_mapping.
C29_Witness ==
  /\ pc = "while" /\ iteration = 0 /\ path_ix = 2 /\ run = 1
  /\ Len(rules) = 2 /\ processes = rules
  /\ enum_mapping # EmptyMapping
  /\ writes[Paths[1]] = 1

\* ------------------------------------------------------------------------
\* process_output_file as an insertion into the file
\* ------------------------------------------------------------------------
\* out is original with '///' lines put in between its lines, and nothing
\* after its last line.
RECURSIVE OnlyInserted(_, _)
OnlyInserted(out, original) ==
  IF original = <<>> THEN out = <<>>
  ELSE /\ out # <<>>
       /\ \/ out[1] = original[1] /\ OnlyInserted(Tail(out), Tail(original))
          \/ StripStartsWith(out[1], "///") /\ OnlyInserted(Tail(out), original)

\* C30: while process_output_file rewrites a file and when it has closed it
\* without an IOError, what it has written is the lines of the original file
\* it has got through, each as it was and in the original order, with '///'
\* comment lines put in front of some of them, whatever the comment index
\* holds.
C30_OnlyInsertsLines ==
  k_pc \in {"write", "closed"} =>
    OnlyInserted(k_file, SubSeq(k_file_content, 1, k_pos - 1))

\* A first run has put two comments into a file.
C30_Witness ==
  /\ k_pc = "closed" /\ k_run = 1
  /\ Len(k_file) >= Len(k_file_content) + 2
  /\ k_file_content = k_file0

====
